---------------------------- MODULE Spec2Model ----------------------------
(***************************************************************************)
(* A model of smallnest/langchat: the agent lifecycle manager              *)
(* (pkg/agent), the chat server's admission semaphore and session->agent   *)
(* registry, and the SimpleChatAgent routing pipeline (pkg/chat/chat.go),  *)
(* the SessionManager (pkg/session) and the AuthService (pkg/auth).        *)
(*                                                                         *)
(* The module holds several specifications over one set of variables; each *)
(* specification drives one component and leaves the others' variables     *)
(* unchanged:                                                              *)
(*   SpecLM      the AgentLifecycleManager, its event and idle loops       *)
(*   SpecLoops   the AgentLifecycleManager with its three background loops *)
(*   SpecHealth  the AgentLifecycleManager and its health checker          *)
(*   SpecAdmit   chat requests against the admission semaphore             *)
(*   SpecReg     tool-list and delete requests against the registry        *)
(*   SpecRoute   one chat request through the routing protocol             *)
(*   SpecOrder   concurrent chat requests on the agent of one session      *)
(*   SpecFeedback chat requests and feedback on the messages they persist  *)
(*   SpecForeign the owner's chat requests and another client's requests   *)
(*   SpecDel     chat requests on a session and deletions of that session  *)
(*   SpecStale   SpecDel with AddMessage as GetSession, then append+Save   *)
(*   SpecBlock   chat requests on two sessions, one listed and deleted     *)
(*   SpecDiscover one chat request while the agent discovers its tools     *)
(*   SpecPair    the same request through Chat and through ChatStream      *)
(*   SpecHistory chat requests on a session with a small history limit     *)
(*   SpecAuth    logins, token refreshes and logouts on the AuthService    *)
(***************************************************************************)
EXTENDS Integers, Sequences, FiniteSets, TLC

VARIABLES
    \* ---- AgentLifecycleManager (src/unnamed/part_001) ----
    lmState,        \* lm.state
    lmLastActivity, \* lm.lastActivity (a clock reading)
    lmNow,          \* time.Now(), the clock
    lmEventChan,    \* lm.eventChan: the buffered events, oldest first
    lmChanClosed,   \* close(lm.eventChan) has run
    lmCtxDone,      \* lm.cancel() has run: lm.ctx.Done() is readable
    lmCrashed,      \* a goroutine panicked (send on / close of a closed channel)
    lmHealth,       \* lm.health: "healthy" | "unhealthy" (IsHealthy), "unset" before the first check
    lmIdlePc,       \* idleMonitor: "wait" | "active" (state read, Running/Ready) | "exited"
    lmHealthPc,     \* healthChecker: "wait" | "exited"
    lmEventPc,      \* eventProcessor: "wait" | "exited"
    lmStopPc,       \* Stop(): 0 not called, 1..3 between its statements, 4 returned
    lmRet,          \* the last SetState call: who called, from which state, to which, error?
    \* ---- ChatServer (src/pkg/chat/chat.go) ----
    maxConcurrent,  \* cs.maxConcurrent = cap(cs.requestSem)
    requestSem,     \* len(cs.requestSem): the occupied slots
    agents,         \* cs.agents: session id -> agent instance (NoAgent: no entry)
    warmup,         \* cs.agents holds the "__warmup__" entry
    agentMu,        \* cs.agentMu: 0 free, else the handler holding the write lock
    nBuilt,         \* session id -> number of NewSimpleChatAgent calls made for it so far
    nMade,          \* session id -> agents constructed for it since its last deletion
    epoch,          \* session id -> number of delete(cs.agents, id) that removed an entry
    aMu,            \* agent instance -> holder of a.mu: 0 free, r a chat handler, -1 Close
    aClose,         \* agent instance -> its Close goroutine: "none" | "run" | "done"
    smSessions,     \* sm.sessions: the ids in the SessionManager's map
    smFiles,        \* the ids with a session file in the store
    smMessages,     \* id -> the session's Messages, each [id, role, content, feedback]
    smMaxHistory,   \* sm.maxHistory, set by NewSessionManager and never written again
    started,        \* number of requests received so far
    nAttempt,       \* chat requests that have called acquireRequest
    nAdmit,         \* ... and were given a slot
    nBusy,          \* ... and were answered 429
    nReturn,        \* admitted chat requests whose HandleChat has returned
    resp,           \* the response written last: [id |-> request serial, code |-> status]
    rPc,            \* handler -> where it is ("idle": serving no request)
    rId,            \* handler -> serial number of the request it serves
    rKind,          \* handler -> "chat" | "tools" | "delete"
    rClient,        \* handler -> the client getClientID derives from the request
    rSid,           \* handler -> the session id the request names
    rAgent,         \* handler -> the agent instance it holds (NoAgent: none)
    rEpoch,         \* handler -> epoch[rSid] when GetOrCreateAgent read or stored the entry
    \* ---- SimpleChatAgent (src/pkg/chat/chat.go): one agent and the calls on it ----
    aCatalog,       \* [toolsEnabled, skills, mcpTools]: a.toolsEnabled, a.skills, a.mcpTools;
                    \* [init, warm]: where the goroutine of InitializeToolsAsync is, and
                    \* the index of the skill it pre-loads
    aLoaded,        \* the skills whose Loaded flag is set
    aMessages,      \* a.messages: each [req, role, content]
    lockOrder,      \* the calls in the order they acquired a.mu
    call,           \* call -> the locals of HandleChat{Stream,NonStream} and Chat{Stream}
    answers,        \* what the model, SkillsToTools and the tools answer when two calls
                    \* are run against the same answers (NoAnswers otherwise)
    \* ---- AuthService (src/pkg/auth/auth.go), cs.authService ----
    refreshTokens,  \* the keys of a.refreshTokens: the refresh tokens that are accepted
    nTokens,        \* refresh tokens generated so far; the tokens are 1..nTokens
    auCall,         \* caller -> [pc, tok, new, ret]: the call of Login, RefreshToken or
                    \* Logout it is in, the token it presented, the token it generated,
                    \* and the refresh token of its response (0: none or an error)
    auFatal         \* the runtime has stopped the process: concurrent map writes

lmVars == <<lmState, lmLastActivity, lmNow, lmEventChan, lmChanClosed, lmCtxDone,
            lmCrashed, lmHealth, lmIdlePc, lmHealthPc, lmEventPc,
            lmStopPc, lmRet>>

srvVars == <<maxConcurrent, requestSem, agents, warmup, agentMu, nBuilt, nMade, epoch,
             aMu, aClose>>
smVars == <<smSessions, smFiles, smMessages>>
cntVars == <<started, nAttempt, nAdmit, nBusy, nReturn, resp>>
reqVars == <<rPc, rId, rKind, rClient, rSid, rAgent, rEpoch>>
csVars == <<srvVars, smVars, cntVars, reqVars>>

agVars == <<aCatalog, aLoaded, aMessages, lockOrder, call, answers>>

auVars == <<refreshTokens, nTokens, auCall, auFatal>>

vars == <<lmVars, csVars, agVars, smMaxHistory, auVars>>

\* what the actions of one component leave unchanged
nonLM == <<csVars, agVars, smMaxHistory, auVars>>
nonCS == <<lmVars, agVars, smMaxHistory, auVars>>
nonAG == <<lmVars, maxConcurrent, requestSem, agents, warmup, agentMu, nBuilt, nMade, epoch,
           aClose, cntVars, reqVars, answers, smMaxHistory, auVars>>
nonAU == <<lmVars, csVars, agVars, smMaxHistory>>

-----------------------------------------------------------------------------
(* Bounds of the model *)

\* the clock runs from 0 to MaxTime
MaxTime == 2
\* config.MaxIdleTime in clock ticks
MaxIdleTime == 1
\* capacity of lm.eventChan in the model (make(chan LifecycleEvent, 100) in the code)
EventChanCap == 1
\* number of HTTP handler goroutines that run at the same time
NReq == 2
\* number of HTTP requests received in a run of the server
MaxStarts == 3
\* number of chat requests made on the one agent of the routing specifications
NCalls == 2
\* number of chunks the model streams in one call
MaxChunks == 2
\* number of session ids
NSessions == 2
\* config.Agent.MaxConcurrent ranges over 1..MaxSlots
MaxSlots == 2
\* MAX_HISTORY_SIZE ranges over -1..MaxKeep where the history limit matters
MaxKeep == 2
\* number of goroutines that call the AuthService at the same time
NCallers == 2
\* number of refresh tokens generated in a run of the server
MaxTokens == 4

-----------------------------------------------------------------------------
(* AgentLifecycleManager *)

StateUninitialized == "uninitialized"
StateInitializing == "initializing"
StateReady == "ready"
StateRunning == "running"
StatePaused == "paused"
StateStopping == "stopping"
StateStopped == "stopped"
StateError == "error"

AgentStates == {StateUninitialized, StateInitializing, StateReady, StateRunning,
                StatePaused, StateStopping, StateStopped, StateError}

\* the validTransitions map of isValidTransition
validTransitions ==
    [s \in AgentStates |->
        CASE s = StateUninitialized -> {StateInitializing, StateStopped}
          [] s = StateInitializing -> {StateReady, StateError, StateStopped}
          [] s = StateReady -> {StateRunning, StateStopping, StateError}
          [] s = StateRunning -> {StateReady, StatePaused, StateStopping, StateError}
          [] s = StatePaused -> {StateRunning, StateStopping, StateError}
          [] s = StateStopping -> {StateStopped, StateError}
          [] s = StateStopped -> {StateInitializing}
          [] s = StateError -> {StateInitializing, StateStopped}]

isValidTransition(from, to) ==
    /\ from \in DOMAIN validTransitions
    /\ to \in validTransitions[from]

NoRet == [caller |-> "none", from |-> "none", to |-> "none", err |-> FALSE]

\* SetState(state, message, err), called by `caller`.  The whole body runs under
\* stateMu.  The code assigns lm.state and lm.lastActivity BEFORE it validates the
\* transition; the event is sent with a non-blocking select, and a send on the
\* closed channel panics.
SetState(caller, state) ==
    LET oldState == lmState
        valid == isValidTransition(oldState, state)
    IN  /\ lmState' = state
        /\ lmLastActivity' = lmNow
        /\ IF ~valid
             THEN /\ lmRet' = [caller |-> caller, from |-> oldState, to |-> state, err |-> TRUE]
                  /\ UNCHANGED <<lmEventChan, lmCrashed>>
             ELSE /\ lmRet' = [caller |-> caller, from |-> oldState, to |-> state, err |-> FALSE]
                  /\ IF lmChanClosed
                       THEN /\ lmCrashed' = TRUE
                            /\ UNCHANGED lmEventChan
                       ELSE /\ lmEventChan' = IF Len(lmEventChan) < EventChanCap
                                                THEN Append(lmEventChan, state)
                                                ELSE lmEventChan
                            /\ UNCHANGED lmCrashed

\* an external caller (NewChatServer, or any holder of GetLifecycleManager())
CallSetState ==
    /\ ~lmCrashed
    /\ \E state \in AgentStates : SetState("caller", state)
    /\ UNCHANGED <<lmNow, lmChanClosed, lmCtxDone, lmHealth, lmIdlePc,
                   lmHealthPc, lmEventPc, lmStopPc>>
    /\ UNCHANGED nonLM

\* UpdateActivity()
UpdateActivity ==
    /\ ~lmCrashed
    /\ lmLastActivity' = lmNow
    /\ UNCHANGED <<lmState, lmNow, lmEventChan, lmChanClosed, lmCtxDone, lmCrashed,
                   lmHealth, lmIdlePc, lmHealthPc, lmEventPc, lmStopPc, lmRet>>
    /\ UNCHANGED nonLM

\* Stop(), statement by statement
StopSetStopping ==
    /\ ~lmCrashed
    /\ lmStopPc = 0
    /\ SetState("stop", StateStopping)
    /\ lmStopPc' = 1
    /\ UNCHANGED <<lmNow, lmChanClosed, lmCtxDone, lmHealth, lmIdlePc,
                   lmHealthPc, lmEventPc>>
    /\ UNCHANGED nonLM

StopCancel ==
    /\ ~lmCrashed
    /\ lmStopPc = 1
    /\ lmCtxDone' = TRUE
    /\ lmStopPc' = 2
    /\ UNCHANGED <<lmState, lmLastActivity, lmNow, lmEventChan, lmChanClosed, lmCrashed,
                   lmHealth, lmIdlePc, lmHealthPc, lmEventPc, lmRet>>
    /\ UNCHANGED nonLM

StopClose ==
    /\ ~lmCrashed
    /\ lmStopPc = 2
    /\ lmChanClosed' = TRUE
    /\ lmStopPc' = 3
    /\ UNCHANGED <<lmState, lmLastActivity, lmNow, lmEventChan, lmCtxDone, lmCrashed,
                   lmHealth, lmIdlePc, lmHealthPc, lmEventPc, lmRet>>
    /\ UNCHANGED nonLM

StopSetStopped ==
    /\ ~lmCrashed
    /\ lmStopPc = 3
    /\ SetState("stop", StateStopped)
    /\ lmStopPc' = 4
    /\ UNCHANGED <<lmNow, lmChanClosed, lmCtxDone, lmHealth, lmIdlePc,
                   lmHealthPc, lmEventPc>>
    /\ UNCHANGED nonLM

\* eventProcessor: one turn of its select loop.  With ctx done it may return; with an
\* event buffered it may receive it; with the channel closed and drained it returns.
\* The handler a received event is passed to (lm.eventHandler, a logging hook)
\* changes nothing the manager holds.
EventProcessorExit ==
    /\ ~lmCrashed
    /\ lmEventPc = "wait"
    /\ lmCtxDone \/ (lmChanClosed /\ lmEventChan = <<>>)
    /\ lmEventPc' = "exited"
    /\ UNCHANGED <<lmState, lmLastActivity, lmNow, lmEventChan, lmChanClosed, lmCtxDone,
                   lmCrashed, lmHealth, lmIdlePc, lmHealthPc, lmStopPc, lmRet>>
    /\ UNCHANGED nonLM

EventProcessorReceive ==
    /\ ~lmCrashed
    /\ lmEventPc = "wait"
    /\ lmEventChan # <<>>
    /\ lmEventChan' = Tail(lmEventChan)
    /\ UNCHANGED <<lmState, lmLastActivity, lmNow, lmChanClosed, lmCtxDone, lmCrashed,
                   lmHealth, lmIdlePc, lmHealthPc, lmEventPc, lmStopPc, lmRet>>
    /\ UNCHANGED nonLM

\* healthChecker: a tick runs performHealthCheck, which reads the state once and
\* writes the snapshot; ctx done lets the loop return.
performHealthCheckAlwaysHealthy ==
    /\ ~lmCrashed
    /\ lmHealthPc = "wait"
    /\ lmHealth' = "healthy"
    /\ UNCHANGED <<lmState, lmLastActivity, lmNow, lmEventChan, lmChanClosed, lmCtxDone,
                   lmCrashed, lmIdlePc, lmHealthPc, lmEventPc, lmStopPc, lmRet>>
    /\ UNCHANGED nonLM

performHealthCheck ==
    /\ ~lmCrashed
    /\ lmHealthPc = "wait"
    /\ lmHealth' = IF lmState # StateError THEN "healthy" ELSE "unhealthy"
    /\ UNCHANGED <<lmState, lmLastActivity, lmNow, lmEventChan, lmChanClosed, lmCtxDone,
                   lmCrashed, lmIdlePc, lmHealthPc, lmEventPc, lmStopPc, lmRet>>
    /\ UNCHANGED nonLM

HealthCheckerExit ==
    /\ ~lmCrashed
    /\ lmHealthPc = "wait"
    /\ lmCtxDone
    /\ lmHealthPc' = "exited"
    /\ UNCHANGED <<lmState, lmLastActivity, lmNow, lmEventChan, lmChanClosed, lmCtxDone,
                   lmCrashed, lmHealth, lmIdlePc, lmEventPc, lmStopPc, lmRet>>
    /\ UNCHANGED nonLM

idleTooLongAtTwice == lmNow - lmLastActivity > 2 * MaxIdleTime

\* checkIdleTimeout: idleTime := time.Since(lm.lastActivity); idleTime > MaxIdleTime
idleTooLong == lmNow - lmLastActivity > MaxIdleTime

\* idleMonitor: a tick runs checkIdleTimeout, which first reads the state under the
\* read lock (IdleReadState) and then, outside any lock, reads lastActivity and
\* calls SetState(StateStopping) (IdleRequestStop).
IdleReadState ==
    /\ ~lmCrashed
    /\ lmIdlePc = "wait"
    /\ lmIdlePc' = IF lmState \in {StateRunning, StateReady} THEN "active" ELSE "wait"
    /\ UNCHANGED <<lmState, lmLastActivity, lmNow, lmEventChan, lmChanClosed, lmCtxDone,
                   lmCrashed, lmHealth, lmHealthPc, lmEventPc, lmStopPc, lmRet>>
    /\ UNCHANGED nonLM

IdleRequestStop ==
    /\ ~lmCrashed
    /\ lmIdlePc = "active"
    /\ lmIdlePc' = "wait"
    /\ IF idleTooLong
         THEN SetState("idle", StateStopping)
         ELSE UNCHANGED <<lmState, lmLastActivity, lmEventChan, lmCrashed, lmRet>>
    /\ UNCHANGED <<lmNow, lmChanClosed, lmCtxDone, lmHealth, lmHealthPc,
                   lmEventPc, lmStopPc>>
    /\ UNCHANGED nonLM

IdleMonitorExit ==
    /\ ~lmCrashed
    /\ lmIdlePc = "wait"
    /\ lmCtxDone
    /\ lmIdlePc' = "exited"
    /\ UNCHANGED <<lmState, lmLastActivity, lmNow, lmEventChan, lmChanClosed, lmCtxDone,
                   lmCrashed, lmHealth, lmHealthPc, lmEventPc, lmStopPc, lmRet>>
    /\ UNCHANGED nonLM

\* the clock advances
ClockTick ==
    /\ ~lmCrashed
    /\ lmNow < MaxTime
    /\ lmNow' = lmNow + 1
    /\ UNCHANGED <<lmState, lmLastActivity, lmEventChan, lmChanClosed, lmCtxDone, lmCrashed,
                   lmHealth, lmIdlePc, lmHealthPc, lmEventPc, lmStopPc, lmRet>>
    /\ UNCHANGED nonLM

\* NewAgentLifecycleManager
InitLM ==
    /\ lmState = StateUninitialized
    /\ lmLastActivity = 0
    /\ lmNow = 0
    /\ lmEventChan = <<>>
    /\ lmChanClosed = FALSE
    /\ lmCtxDone = FALSE
    /\ lmCrashed = FALSE
    /\ lmHealth = "unset"
    /\ lmIdlePc = "wait"
    /\ lmHealthPc = "wait"
    /\ lmEventPc = "wait"
    /\ lmStopPc = 0
    /\ lmRet = NoRet

NextLM ==
    \/ CallSetState
    \/ StopSetStopping
    \/ StopCancel
    \/ StopClose
    \/ StopSetStopped
    \/ EventProcessorExit
    \/ EventProcessorReceive
    \/ IdleReadState
    \/ IdleRequestStop
    \/ IdleMonitorExit
    \/ ClockTick

\* the manager with its three background loops
NextLoops ==
    \/ NextLM
    \/ performHealthCheck
    \/ HealthCheckerExit

\* the manager with the health checker and the event processor, and its callers
NextHealth ==
    \/ CallSetState
    \/ StopSetStopping
    \/ StopCancel
    \/ StopClose
    \/ StopSetStopped
    \/ EventProcessorExit
    \/ EventProcessorReceive
    \/ performHealthCheck
    \/ HealthCheckerExit

-----------------------------------------------------------------------------
(* ChatServer: admission semaphore, session->agent registry, HTTP handlers *)

\* the handler goroutines of the server.  The specifications run the requests of
\* Requests; the one about a request of one session held up behind the deletion of
\* another runs one more beside the chat request and the deletion, all of Handlers.
Handlers == 1..(NReq + 1)
Requests == 1..NReq
Sessions == 1..NSessions
\* an agent instance is named by the session it was constructed for and the number
\* of that construction: every NewSimpleChatAgent call returns a new object
AgentIds == Sessions \X (1..MaxStarts)
NoAgent == <<0, 0>>

\* the session that has an agent when the server starts, and that agent: the calls
\* of the routing specifications are made on it
TheSession == 1
TheAgent == <<TheSession, 1>>

\* main(): maxHistory := 50, unless MAX_HISTORY_SIZE gives another value
maxHistory == 50

Min(a, b) == IF a < b THEN a ELSE b

acquireOkLoose == requestSem <= maxConcurrent

acquireOkStrict == requestSem + 1 < maxConcurrent

\* acquireRequest: the non-blocking send succeeds iff the buffered channel has room
acquireOk == requestSem < maxConcurrent

releaseRequestNever == requestSem

releaseRequestDouble == IF requestSem > 1 THEN requestSem - 2 ELSE 0

\* releaseRequest: the non-blocking receive; on an empty channel it only logs
releaseRequest == IF requestSem > 0 THEN requestSem - 1 ELSE requestSem

\* SessionManager.GetSession: the in-memory map, else a load from the store
GetSessionOk(sid) == sid \in smSessions \/ sid \in smFiles

\* getClientID: the md5 of IP and User-Agent names the client.  The sessions of the
\* model were created by Owner, so they live in Owner's SessionManager and store
\* directory (smSessions, smFiles, smMessages); GetSessionManager gives every other
\* client a manager of its own, which holds none of them.
Owner == "A"
Clients == {"A", "B"}
NoClient == "none"
clientGetSessionOk(client, sid) == client = Owner /\ GetSessionOk(sid)

\* the message id AddMessage returns (uuid.New()): a new id for each request and
\* role; NoMsgId is the empty string returned with an error
NoMsgId == <<0, "">>
msgID(sid, id, role) == IF GetSessionOk(sid) THEN <<id, role>> ELSE NoMsgId

AddMessageKeepOldest(sid, id, role, content) ==
    IF GetSessionOk(sid)
      THEN LET message == [id |-> msgID(sid, id, role), role |-> role, content |-> content,
                           feedback |-> ""]
               appended == Append(smMessages[sid], message)
               kept == IF smMaxHistory > 0 /\ Len(appended) > smMaxHistory
                         THEN SubSeq(appended, 1, smMaxHistory)
                         ELSE appended
           IN  /\ smMessages' = [smMessages EXCEPT ![sid] = kept]
               /\ smSessions' = smSessions \cup {sid}
               /\ smFiles' = smFiles \cup {sid}
      ELSE UNCHANGED smVars

\* SessionManager.AddMessage(sid, role, content) for the request with serial id; the
\* handlers ignore its error.
AddMessage(sid, id, role, content) ==
    IF GetSessionOk(sid)
      THEN LET message == [id |-> msgID(sid, id, role), role |-> role, content |-> content,
                           feedback |-> ""]
               appended == Append(smMessages[sid], message)
               kept == IF smMaxHistory > 0 /\ Len(appended) > smMaxHistory
                         THEN SubSeq(appended, Len(appended) - smMaxHistory + 1, Len(appended))
                         ELSE appended
           IN  /\ smMessages' = [smMessages EXCEPT ![sid] = kept]
               /\ smSessions' = smSessions \cup {sid}
               /\ smFiles' = smFiles \cup {sid}
      ELSE UNCHANGED smVars

\* a handler goroutine takes the next request and goes to pc
Receive(r, kind, client, sid, pc) ==
    /\ rPc[r] = "idle"
    /\ started < MaxStarts
    /\ started' = started + 1
    /\ rPc' = [rPc EXCEPT ![r] = pc]
    /\ rId' = [rId EXCEPT ![r] = started + 1]
    /\ rKind' = [rKind EXCEPT ![r] = kind]
    /\ rClient' = [rClient EXCEPT ![r] = client]
    /\ rSid' = [rSid EXCEPT ![r] = sid]

\* a handler goroutine takes the next request and answers it at once
Reject(r, code) ==
    /\ rPc[r] = "idle"
    /\ started < MaxStarts
    /\ started' = started + 1
    /\ resp' = [id |-> started + 1, code |-> code]
    /\ UNCHANGED reqVars

\* the handler writes status `code` and returns; the goroutine keeps nothing
Respond(r, code) ==
    /\ resp' = [id |-> rId[r], code |-> code]
    /\ rPc' = [rPc EXCEPT ![r] = "idle"]
    /\ rId' = [rId EXCEPT ![r] = 0]
    /\ rKind' = [rKind EXCEPT ![r] = "none"]
    /\ rClient' = [rClient EXCEPT ![r] = NoClient]
    /\ rSid' = [rSid EXCEPT ![r] = 0]
    /\ rAgent' = [rAgent EXCEPT ![r] = NoAgent]
    /\ rEpoch' = [rEpoch EXCEPT ![r] = 0]

\* the handler goes on to pc
Goto(r, pc) ==
    /\ rPc' = [rPc EXCEPT ![r] = pc]
    /\ UNCHANGED <<rId, rKind, rClient, rSid, rAgent, rEpoch, resp>>

\* HandleChat returns after a successful acquireRequest: the deferred releaseRequest
ReturnAdmitted(r, code) ==
    /\ Respond(r, code)
    /\ requestSem' = releaseRequest
    /\ nReturn' = nReturn + 1

\* HandleChat up to acquireRequest: a non-POST request is answered 405 before the
\* semaphore is touched; a full semaphore answers 429 at once.  The request names a
\* session id of sids and comes from a client of clients.
HandleChatAcquire(r, sids, clients) ==
    /\ \E sid \in sids, client \in clients, post \in BOOLEAN :
        IF ~post
          THEN /\ Reject(r, 405)
               /\ UNCHANGED <<requestSem, nAttempt, nAdmit, nBusy>>
          ELSE /\ nAttempt' = nAttempt + 1
               /\ IF acquireOk
                    THEN /\ Receive(r, "chat", client, sid, "validate")
                         /\ requestSem' = requestSem + 1
                         /\ nAdmit' = nAdmit + 1
                         /\ UNCHANGED <<rAgent, rEpoch, resp, nBusy>>
                    ELSE /\ Reject(r, 429)
                         /\ nBusy' = nBusy + 1
                         /\ UNCHANGED <<requestSem, nAdmit>>
    /\ UNCHANGED <<maxConcurrent, agents, warmup, agentMu, nBuilt, nMade, epoch, aMu, aClose>>
    /\ UNCHANGED <<smVars, nReturn>>
    /\ UNCHANGED nonCS

\* HandleChat: the body is decoded, session_id and message must be non-empty (400),
\* and the session must exist (404)
HandleChatValidate(r) ==
    /\ rPc[r] = "validate"
    /\ \E bodyOk \in BOOLEAN :
        IF ~bodyOk
          THEN /\ ReturnAdmitted(r, 400)
               /\ UNCHANGED smVars
          ELSE IF clientGetSessionOk(rClient[r], rSid[r])
            THEN /\ Goto(r, "getagent")
                 /\ smSessions' = smSessions \cup {rSid[r]}
                 /\ UNCHANGED <<requestSem, nReturn, smFiles, smMessages>>
            ELSE /\ ReturnAdmitted(r, 404)
                 /\ UNCHANGED smVars
    /\ UNCHANGED <<maxConcurrent, agents, warmup, agentMu, nBuilt, nMade, epoch, aMu, aClose>>
    /\ UNCHANGED <<started, nAttempt, nAdmit, nBusy>>
    /\ UNCHANGED nonCS

\* HandleMCPTools: session_id is taken from the query; neither the client nor the
\* session is looked up
HandleMCPToolsStart(r, clients) ==
    /\ \E sid \in Sessions, client \in clients : Receive(r, "tools", client, sid, "getagent")
    /\ UNCHANGED <<srvVars, smVars, nAttempt, nAdmit, nBusy, nReturn, resp, rAgent, rEpoch>>
    /\ UNCHANGED nonCS

\* GetOrCreateAgent has returned agent a, read or stored in epoch e.  HandleChat goes
\* on to AddMessage; HandleMCPTools to the agent's tool list.
AgentReturned(r, a, e) ==
    /\ rAgent' = [rAgent EXCEPT ![r] = a]
    /\ rEpoch' = [rEpoch EXCEPT ![r] = e]
    /\ rPc' = [rPc EXCEPT ![r] = IF rKind[r] = "chat" THEN "adduser" ELSE "respond"]
    /\ UNCHANGED <<rId, rKind, rClient, rSid, resp>>

\* GetOrCreateAgent, the optimistic read under agentMu.RLock
GetOrCreateAgentRead(r) ==
    /\ rPc[r] = "getagent"
    /\ agentMu = 0
    /\ IF agents[rSid[r]] # NoAgent
         THEN AgentReturned(r, agents[rSid[r]], epoch[rSid[r]])
         ELSE Goto(r, "create")
    /\ UNCHANGED <<srvVars, smVars, started, nAttempt, nAdmit, nBusy, nReturn>>
    /\ UNCHANGED nonCS

recheckSkipped(sid) == FALSE

\* GetOrCreateAgent: "Double-check after acquiring write lock"
recheckExists(sid) == agents[sid] # NoAgent

\* GetOrCreateAgent under agentMu.Lock: the re-check, the removal of the warmup
\* entry, NewSimpleChatAgent, the map store and InitializeToolsAsync (which only
\* starts a goroutine); nothing in the section blocks, so it is one step.
GetOrCreateAgentCreate(r) ==
    /\ rPc[r] = "create"
    /\ agentMu = 0
    /\ IF recheckExists(rSid[r])
         THEN /\ AgentReturned(r, agents[rSid[r]], epoch[rSid[r]])
              /\ UNCHANGED <<agents, warmup, nBuilt, nMade>>
         ELSE LET a == <<rSid[r], nBuilt[rSid[r]] + 1>>
              IN  /\ nBuilt' = [nBuilt EXCEPT ![rSid[r]] = @ + 1]
                  /\ nMade' = [nMade EXCEPT ![rSid[r]] = @ + 1]
                  /\ agents' = [agents EXCEPT ![rSid[r]] = a]
                  /\ warmup' = FALSE
                  /\ AgentReturned(r, a, epoch[rSid[r]])
    /\ UNCHANGED <<maxConcurrent, requestSem, agentMu, epoch, aMu, aClose>>
    /\ UNCHANGED <<smVars, started, nAttempt, nAdmit, nBusy, nReturn>>
    /\ UNCHANGED nonCS

\* HandleMCPTools: GetAvailableTools and the JSON answer
HandleMCPToolsRespond(r) ==
    /\ rPc[r] = "respond"
    /\ Respond(r, 200)
    /\ UNCHANGED <<srvVars, smVars, started, nAttempt, nAdmit, nBusy, nReturn>>
    /\ UNCHANGED nonCS

\* HandleChat: "Add user message to history"
HandleChatAddUser(r) ==
    /\ rPc[r] = "adduser"
    /\ AddMessage(rSid[r], rId[r], "user", <<"message", rId[r]>>)
    /\ Goto(r, "chatlock")
    /\ UNCHANGED <<srvVars, started, nAttempt, nAdmit, nBusy, nReturn>>
    /\ UNCHANGED nonCS

\* AddMessage of the user message in its two parts.  First sm.GetSession: the
\* session is taken from the map or loaded from the store into it; without a session
\* AddMessage returns an error, which HandleChat ignores.
HandleChatAddUserGet(r) ==
    /\ rPc[r] = "adduser"
    /\ IF GetSessionOk(rSid[r])
         THEN /\ smSessions' = smSessions \cup {rSid[r]}
              /\ Goto(r, "addsave")
         ELSE /\ UNCHANGED smSessions
              /\ Goto(r, "chatlock")
    /\ UNCHANGED <<srvVars, smFiles, smMessages, started, nAttempt, nAdmit, nBusy, nReturn>>
    /\ UNCHANGED nonCS

\* Then, under session.mu and on the *Session it was given: the message is appended,
\* the history cut to maxHistory, and sm.store.Save(session) writes the session file.
\* Of a session object that is no longer in the map the model keeps the messages
\* appended since.
HandleChatAddUserSave(r) ==
    /\ rPc[r] = "addsave"
    /\ LET message == [id |-> <<rId[r], "user">>, role |-> "user",
                       content |-> <<"message", rId[r]>>, feedback |-> ""]
           appended == Append(smMessages[rSid[r]], message)
           kept == IF smMaxHistory > 0 /\ Len(appended) > smMaxHistory
                     THEN SubSeq(appended, Len(appended) - smMaxHistory + 1, Len(appended))
                     ELSE appended
       IN  /\ smMessages' = [smMessages EXCEPT ![rSid[r]] = kept]
           /\ smFiles' = smFiles \cup {rSid[r]}
    /\ Goto(r, "chatlock")
    /\ UNCHANGED <<srvVars, smSessions, started, nAttempt, nAdmit, nBusy, nReturn>>
    /\ UNCHANGED nonCS

\* agent.Chat / agent.ChatStream: a.mu.Lock()
ChatLock(r) ==
    /\ rPc[r] = "chatlock"
    /\ aMu[rAgent[r]] = 0
    /\ aMu' = [aMu EXCEPT ![rAgent[r]] = r]
    /\ Goto(r, "model")
    /\ UNCHANGED <<maxConcurrent, requestSem, agents, warmup, agentMu, nBuilt, nMade, epoch,
                   aClose>>
    /\ UNCHANGED <<smVars, started, nAttempt, nAdmit, nBusy, nReturn>>
    /\ UNCHANGED nonCS

\* agent.Chat / agent.ChatStream returns (the model call is over) and a.mu is
\* unlocked by the deferred a.mu.Unlock(); on an error the handler answers 500 (or the
\* SSE error event) and returns; a panic inside the call unwinds through the deferred
\* calls of Chat and HandleChat and no status is written (code 0)
ChatReturn(r) ==
    /\ rPc[r] = "model"
    /\ aMu' = [aMu EXCEPT ![rAgent[r]] = 0]
    /\ \E outcome \in {"ok", "err", "panic"} :
        IF outcome = "ok"
          THEN /\ Goto(r, "addassistant")
               /\ UNCHANGED <<requestSem, nReturn>>
          ELSE ReturnAdmitted(r, IF outcome = "err" THEN 500 ELSE 0)
    /\ UNCHANGED <<maxConcurrent, agents, warmup, agentMu, nBuilt, nMade, epoch, aClose>>
    /\ UNCHANGED <<smVars, started, nAttempt, nAdmit, nBusy>>
    /\ UNCHANGED nonCS

\* the assistant message is saved, the answer is written and HandleChat returns
HandleChatAddAssistant(r) ==
    /\ rPc[r] = "addassistant"
    /\ AddMessage(rSid[r], rId[r], "assistant", <<"response", rId[r]>>)
    /\ ReturnAdmitted(r, 200)
    /\ UNCHANGED <<maxConcurrent, agents, warmup, agentMu, nBuilt, nMade, epoch, aMu, aClose>>
    /\ UNCHANGED <<started, nAttempt, nAdmit, nBusy>>
    /\ UNCHANGED nonCS

\* HandleDeleteSession: agentMu.Lock(); with an agent in the map the Close goroutine
\* is started and the handler waits, holding the lock.  The request names a session
\* id of sids and comes from a client of clients.
HandleDeleteLock(r, sids, clients) ==
    /\ agentMu = 0
    /\ \E sid \in sids, client \in clients :
        IF agents[sid] # NoAgent
          THEN /\ Receive(r, "delete", client, sid, "delwait")
               /\ agentMu' = r
               /\ rAgent' = [rAgent EXCEPT ![r] = agents[sid]]
               /\ aClose' = [aClose EXCEPT ![agents[sid]] = "run"]
          ELSE /\ Receive(r, "delete", client, sid, "delsession")
               /\ UNCHANGED <<agentMu, aClose, rAgent>>
    /\ UNCHANGED <<maxConcurrent, requestSem, agents, warmup, nBuilt, nMade, epoch, aMu>>
    /\ UNCHANGED <<smVars, nAttempt, nAdmit, nBusy, nReturn, resp, rEpoch>>
    /\ UNCHANGED nonCS

\* the goroutine running simpleAgent.Close(): a.mu.Lock(), the MCP client is closed
\* (itself bounded by 5 s), a.mu.Unlock(), and the result is sent on done
CloseAgent(a) ==
    /\ aClose[a] = "run"
    /\ aMu[a] = 0
    /\ aClose' = [aClose EXCEPT ![a] = "done"]
    /\ UNCHANGED <<maxConcurrent, requestSem, agents, warmup, agentMu, nBuilt, nMade, epoch,
                   aMu>>
    /\ UNCHANGED <<smVars, cntVars, reqVars>>
    /\ UNCHANGED nonCS

selectReturnsOnDone(a) == aClose[a] = "done"

\* HandleDeleteSession, the select on done and time.After(10 * time.Second): it
\* returns when Close of agent a has sent its result, and after 10 s while Close is
\* still running
selectReturns(a) == aClose[a] \in {"run", "done"}

\* HandleDeleteSession: the select returns (done received, or 10 s passed), the entry
\* is deleted and agentMu is unlocked
HandleDeleteRemove(r) ==
    /\ rPc[r] = "delwait"
    /\ selectReturns(rAgent[r])
    /\ agents' = [agents EXCEPT ![rSid[r]] = NoAgent]
    /\ epoch' = [epoch EXCEPT ![rSid[r]] = @ + 1]
    /\ nMade' = [nMade EXCEPT ![rSid[r]] = 0]
    /\ agentMu' = 0
    /\ rPc' = [rPc EXCEPT ![r] = "delsession"]
    /\ UNCHANGED <<maxConcurrent, requestSem, warmup, nBuilt, aMu, aClose>>
    /\ UNCHANGED <<smVars, cntVars, rId, rKind, rClient, rSid, rAgent, rEpoch>>
    /\ UNCHANGED nonCS

\* HandleDeleteSession: sm.DeleteSession, on the SessionManager of the request's
\* client, removes the map entry and the file; the error of os.Remove (no such file)
\* is answered 404
HandleDeleteSessionStore(r) ==
    /\ rPc[r] = "delsession"
    /\ IF rClient[r] = Owner
         THEN /\ smSessions' = smSessions \ {rSid[r]}
              /\ smFiles' = smFiles \ {rSid[r]}
              /\ smMessages' = [smMessages EXCEPT ![rSid[r]] = <<>>]
              /\ Respond(r, IF rSid[r] \in smFiles THEN 204 ELSE 404)
         ELSE /\ UNCHANGED smVars
              /\ Respond(r, 404)
    /\ UNCHANGED <<srvVars, started, nAttempt, nAdmit, nBusy, nReturn>>
    /\ UNCHANGED nonCS

\* the message ids and the feedback values a feedback request can carry
MessageIds == (1..MaxStarts) \X {"user", "assistant"}
Feedbacks == {"like", "dislike"}

\* the index range of the loop in UpdateMessageFeedback, and the first index whose
\* message has the id (the loop breaks there)
foundAt(sid, mid) == {i \in 1..Len(smMessages[sid]) : smMessages[sid][i].id = mid}
firstFound(sid, mid) == CHOOSE i \in foundAt(sid, mid) : \A j \in foundAt(sid, mid) : i <= j

\* SessionManager.UpdateMessageFeedback returns nil: the session is found and holds a
\* message with the id
UpdateMessageFeedbackOk(client, sid, mid) ==
    clientGetSessionOk(client, sid) /\ foundAt(sid, mid) # {}

\* HandleFeedback: 405 for a non-POST request, 400 for a body that does not decode,
\* 500 when UpdateMessageFeedback returns an error; otherwise the Feedback of the
\* message is assigned, the session is saved and 200 is answered
HandleFeedback(r, sids, clients) ==
    /\ \E post, bodyOk \in BOOLEAN, client \in clients, sid \in sids, mid \in MessageIds,
          feedback \in Feedbacks :
        IF ~post
          THEN Reject(r, 405) /\ UNCHANGED smVars
          ELSE IF ~bodyOk
            THEN Reject(r, 400) /\ UNCHANGED smVars
            ELSE IF UpdateMessageFeedbackOk(client, sid, mid)
              THEN /\ smMessages' = [smMessages EXCEPT
                                       ![sid][firstFound(sid, mid)].feedback = feedback]
                   /\ smSessions' = smSessions \cup {sid}
                   /\ smFiles' = smFiles \cup {sid}
                   /\ Reject(r, 200)
              ELSE /\ smSessions' = IF clientGetSessionOk(client, sid)
                                      THEN smSessions \cup {sid} ELSE smSessions
                   /\ UNCHANGED <<smFiles, smMessages>>
                   /\ Reject(r, 500)
    /\ UNCHANGED <<srvVars, nAttempt, nAdmit, nBusy, nReturn>>
    /\ UNCHANGED nonCS

\* HandleGetHistory: 405 for a non-GET request; sm.GetMessages on the SessionManager
\* of the request's client answers 404 when GetSession fails, else the messages
HandleGetHistory(r, sids, clients) ==
    /\ \E get \in BOOLEAN, client \in clients, sid \in sids :
        IF ~get
          THEN Reject(r, 405) /\ UNCHANGED smVars
          ELSE IF clientGetSessionOk(client, sid)
            THEN /\ smSessions' = smSessions \cup {sid}
                 /\ UNCHANGED <<smFiles, smMessages>>
                 /\ Reject(r, 200)
            ELSE Reject(r, 404) /\ UNCHANGED smVars
    /\ UNCHANGED <<srvVars, nAttempt, nAdmit, nBusy, nReturn>>
    /\ UNCHANGED nonCS

\* ---- AuthService: the refresh tokens ----

\* the goroutines of net/http that serve /api/auth/login, /refresh and /logout
AuthCallers == 1..NCallers

NoAuthCall == [pc |-> "idle", tok |-> 0, new |-> 0, ret |-> 0]

\* NewAuthService: an empty token map.  CreateDemoUsers has registered the users; a
\* user is never removed and Active is never cleared, so every token's user is found.
InitAuth ==
    /\ refreshTokens = {}
    /\ nTokens = 0
    /\ auCall = [p \in AuthCallers |-> NoAuthCall]
    /\ auFatal = FALSE

\* generateRefreshToken: 32 bytes of crypto/rand, a value that was never generated
\* before; the model numbers the tokens in the order they are generated
generateRefreshToken == nTokens + 1

\* Login with valid credentials: a new refresh token is generated and stored
Login(p) ==
    /\ ~auFatal
    /\ auCall[p].pc = "idle"
    /\ nTokens < MaxTokens
    /\ nTokens' = nTokens + 1
    /\ refreshTokens' = refreshTokens \cup {generateRefreshToken}
    /\ auCall' = [auCall EXCEPT ![p] = [pc |-> "done", tok |-> 0, new |-> generateRefreshToken,
                                        ret |-> generateRefreshToken]]
    /\ UNCHANGED auFatal
    /\ UNCHANGED nonAU

\* RefreshToken up to the generation of the new tokens: the token is looked up in
\* a.refreshTokens; an unknown one is answered "invalid refresh token"; for a known
\* one the access token and the new refresh token are generated
RefreshTokenLookup(p, t) ==
    /\ ~auFatal
    /\ auCall[p].pc = "idle"
    /\ IF t \in refreshTokens
         THEN /\ nTokens < MaxTokens
              /\ nTokens' = nTokens + 1
              /\ auCall' = [auCall EXCEPT ![p] = [pc |-> "generated", tok |-> t,
                                                  new |-> generateRefreshToken, ret |-> 0]]
         ELSE /\ auCall' = [auCall EXCEPT ![p] = [pc |-> "done", tok |-> t, new |-> 0, ret |-> 0]]
              /\ UNCHANGED nTokens
    /\ UNCHANGED <<refreshTokens, auFatal>>
    /\ UNCHANGED nonAU

\* another goroutine is inside RefreshToken between its lookup and its map writes:
\* the map a.refreshTokens is read and written without a lock
Racing(p) == \E q \in AuthCallers \ {p} : auCall[q].pc = "generated"

\* RefreshToken, "Update refresh tokens": the presented token is deleted, the new
\* one stored, and the response carries the new one
RefreshTokenUpdate(p) ==
    /\ ~auFatal
    /\ auCall[p].pc = "generated"
    /\ refreshTokens' = (refreshTokens \ {auCall[p].tok}) \cup {auCall[p].new}
    /\ auCall' = [auCall EXCEPT ![p].pc = "done", ![p].ret = auCall[p].new]
    /\ UNCHANGED <<nTokens, auFatal>>
    /\ UNCHANGED nonAU

\* the map writes of two goroutines overlap: the Go runtime may detect it and end
\* the process with "fatal error: concurrent map writes"
ConcurrentMapWrites(p) ==
    /\ ~auFatal
    /\ auCall[p].pc = "generated"
    /\ Racing(p)
    /\ auFatal' = TRUE
    /\ UNCHANGED <<refreshTokens, nTokens, auCall>>
    /\ UNCHANGED nonAU

\* Logout: the token is deleted from the map, whether it is there or not
Logout(p, t) ==
    /\ ~auFatal
    /\ auCall[p].pc = "idle"
    /\ refreshTokens' = refreshTokens \ {t}
    /\ auCall' = [auCall EXCEPT ![p] = [pc |-> "done", tok |-> t, new |-> 0, ret |-> 0]]
    /\ UNCHANGED <<nTokens, auFatal>>
    /\ UNCHANGED nonAU

\* the caller has its response
AuthReturn(p) ==
    /\ ~auFatal
    /\ auCall[p].pc = "done"
    /\ auCall' = [auCall EXCEPT ![p] = NoAuthCall]
    /\ UNCHANGED <<refreshTokens, nTokens, auFatal>>
    /\ UNCHANGED nonAU

\* the clients present tokens they were given, or one that was never generated (0)
NextAuth ==
    \E p \in AuthCallers :
        \/ Login(p)
        \/ \E t \in 0..nTokens : RefreshTokenLookup(p, t)
        \/ RefreshTokenUpdate(p)
        \/ ConcurrentMapWrites(p)
        \/ \E t \in 0..nTokens : Logout(p, t)
        \/ AuthReturn(p)

\* NewChatServer and main(): the semaphore is empty, the map holds only the warmup
\* agent; the sessions in `created` were made by HandleNewSession (CreateSession keeps
\* them in the map without a file) and hold no message yet; for those in `built`
\* GetOrCreateAgent has already constructed the agent
InitCSWith(created, built, limit) ==
    /\ maxConcurrent \in 1..MaxSlots
    /\ requestSem = 0
    /\ agents = [s \in Sessions |-> IF s \in built THEN <<s, 1>> ELSE NoAgent]
    /\ warmup = (built = {})
    /\ agentMu = 0
    /\ nBuilt = [s \in Sessions |-> IF s \in built THEN 1 ELSE 0]
    /\ nMade = [s \in Sessions |-> IF s \in built THEN 1 ELSE 0]
    /\ epoch = [s \in Sessions |-> 0]
    /\ aMu = [a \in AgentIds |-> 0]
    /\ aClose = [a \in AgentIds |-> "none"]
    /\ smSessions = created
    /\ smFiles = {}
    /\ smMessages = [s \in Sessions |-> <<>>]
    /\ smMaxHistory = limit
    /\ InitAuth
    /\ started = 0
    /\ nAttempt = 0
    /\ nAdmit = 0
    /\ nBusy = 0
    /\ nReturn = 0
    /\ resp = [id |-> 0, code |-> 0]
    /\ rPc = [r \in Handlers |-> "idle"]
    /\ rId = [r \in Handlers |-> 0]
    /\ rKind = [r \in Handlers |-> "none"]
    /\ rClient = [r \in Handlers |-> NoClient]
    /\ rSid = [r \in Handlers |-> 0]
    /\ rAgent = [r \in Handlers |-> NoAgent]
    /\ rEpoch = [r \in Handlers |-> 0]

\* the server as main() starts it with the default history limit
InitCS(created, built) == InitCSWith(created, built, maxHistory)

\* the chat endpoint: POST /api/chat, with requests that name a session that
\* exists (1) or the one that does not (NSessions)
NextAdmit ==
    \E r \in Requests :
        \/ HandleChatAcquire(r, {1, NSessions}, {Owner})
        \/ HandleChatValidate(r)
        \/ GetOrCreateAgentRead(r)
        \/ GetOrCreateAgentCreate(r)
        \/ HandleChatAddUser(r)
        \/ ChatLock(r)
        \/ ChatReturn(r)
        \/ HandleChatAddAssistant(r)

\* the chat endpoint and POST /api/feedback, from the client that owns the sessions
NextFeedback ==
    \/ NextAdmit
    \/ \E r \in Requests : HandleFeedback(r, Sessions, {Owner})

\* the chat requests of the client that owns the sessions, and every endpoint that
\* takes a session id driven by another client with the owner's session ids
Foreign == Clients \ {Owner}
NextForeign ==
    \/ NextAdmit
    \/ \E r \in Requests :
        \/ HandleChatAcquire(r, Sessions \ {NSessions}, Foreign)
        \/ HandleGetHistory(r, Sessions \ {NSessions}, Foreign)
        \/ HandleFeedback(r, Sessions \ {NSessions}, Foreign)
        \/ HandleMCPToolsStart(r, Foreign)
        \/ HandleMCPToolsRespond(r)
        \/ HandleDeleteLock(r, Sessions \ {NSessions}, Foreign)
        \/ HandleDeleteRemove(r)
        \/ HandleDeleteSessionStore(r)
    \/ \E a \in AgentIds : CloseAgent(a)

\* chat requests and deletions of the one session that has an agent
NextDel ==
    \/ \E r \in Requests :
        \/ HandleChatAcquire(r, {TheSession}, {Owner})
        \/ HandleChatValidate(r)
        \/ GetOrCreateAgentRead(r)
        \/ GetOrCreateAgentCreate(r)
        \/ HandleChatAddUser(r)
        \/ ChatLock(r)
        \/ ChatReturn(r)
        \/ HandleChatAddAssistant(r)
        \/ HandleDeleteLock(r, {TheSession}, {Owner})
        \/ HandleDeleteRemove(r)
        \/ HandleDeleteSessionStore(r)
    \/ \E a \in AgentIds : CloseAgent(a)

\* the same, with the AddMessage of the user message in its two parts
NextStale ==
    \/ \E r \in Requests :
        \/ HandleChatAcquire(r, {TheSession}, {Owner})
        \/ HandleChatValidate(r)
        \/ GetOrCreateAgentRead(r)
        \/ GetOrCreateAgentCreate(r)
        \/ HandleChatAddUserGet(r)
        \/ HandleChatAddUserSave(r)
        \/ ChatLock(r)
        \/ ChatReturn(r)
        \/ HandleChatAddAssistant(r)
        \/ HandleDeleteLock(r, {TheSession}, {Owner})
        \/ HandleDeleteRemove(r)
        \/ HandleDeleteSessionStore(r)
    \/ \E a \in AgentIds : CloseAgent(a)

\* chat requests on every session together with tool listings and deletions of the
\* session that has an agent
NextBlock ==
    \/ \E r \in Handlers :
        \/ HandleChatAcquire(r, Sessions, {Owner})
        \/ HandleChatValidate(r)
        \/ GetOrCreateAgentRead(r)
        \/ GetOrCreateAgentCreate(r)
        \/ HandleChatAddUser(r)
        \/ ChatLock(r)
        \/ ChatReturn(r)
        \/ HandleChatAddAssistant(r)
        \/ HandleMCPToolsStart(r, {Owner})
        \/ HandleMCPToolsRespond(r)
        \/ HandleDeleteLock(r, {TheSession}, {Owner})
        \/ HandleDeleteRemove(r)
        \/ HandleDeleteSessionStore(r)
    \/ \E a \in AgentIds : CloseAgent(a)

\* the endpoints that read and delete registry entries: GET /api/mcp/tools and
\* DELETE /api/sessions/{id}
NextReg ==
    \/ \E r \in Requests :
        \/ HandleMCPToolsStart(r, {Owner})
        \/ GetOrCreateAgentRead(r)
        \/ GetOrCreateAgentCreate(r)
        \/ HandleMCPToolsRespond(r)
        \/ HandleDeleteLock(r, Sessions, {Owner})
        \/ HandleDeleteRemove(r)
        \/ HandleDeleteSessionStore(r)
    \/ \E a \in AgentIds : CloseAgent(a)

-----------------------------------------------------------------------------
(* SimpleChatAgent: the routing protocol of Chat and ChatStream *)

Calls == 1..NCalls


\* A string is a sequence of atoms; strings.Builder and string concatenation are \o.
RECURSIVE Flatten(_)
Flatten(ss) == IF ss = <<>> THEN <<>> ELSE Head(ss) \o Flatten(Tail(ss))

\* notifyStart: the Sprintf of the "Calling tool" notice with toolName
notifyStart(toolName) == <<"Calling tool ", toolName, "...">>

\* notifyError: the Sprintf of the "Tool error" notice with the error
notifyError(err) == <<"Tool error: ", err>>

\* notifyResult: the Sprintf of the details block with toolName and result
notifyResult(toolName, result) ==
    <<"details Tool Result: ", toolName, " summary">> \o result \o <<" end details">>

\* toolMsg: the Sprintf of the system-role text with toolName and toolResult
toolMessage(toolName, result) == <<"I used the tool ", toolName, " result: ">> \o result

\* the system instruction NewSimpleChatAgent puts at index 0
systemMsg == [req |-> 0, role |-> "system", content |-> <<"You are a helpful AI assistant.">>]

\* the catalog after discovery: the skill names, the tools of a skill, the MCP tools
SkillCatalog == {"s1"}
SkillNames == <<"s1">>
SkillTools(skill) == <<"t1">>
McpCatalog == <<"m1">>

\* the names a routing answer may carry: exact, differing in case only, unknown, empty
SkillAnswers == {"s1", "S1", "zz", ""}
ToolAnswers == {"t1", "T1", "m1", "zz", ""}

\* strings.EqualFold on the names above
Lower(n) == CASE n = "S1" -> "s1" [] n = "T1" -> "t1" [] OTHER -> n
EqualFold(a, b) == Lower(a) = Lower(b)

\* What a.llm.GenerateContent returns to a routing question: an error, a response with
\* no choice, or a text: an optional code fence around a body that is a JSON decision
\* (json) or something json.Unmarshal rejects.
\* A decision that selects may carry the "args" member: absent (the nil map) or an
\* object with a member.
Fences == {"none", "json fence", "plain fence"}
Bodies(names) ==
    {[json |-> FALSE, use |-> FALSE, name |-> "", args |-> "nil"]}
        \cup [json : {TRUE}, use : {FALSE}, name : names, args : {"nil"}]
        \cup [json : {TRUE}, use : {TRUE}, name : names, args : {"nil", "obj"}]
RoutingResponses(names) ==
    {[kind |-> "err"], [kind |-> "nochoice"]}
        \cup {[kind |-> "text", fence |-> f, body |-> b] : f \in Fences, b \in Bodies(names)}

\* "Clean up the decision": TrimSpace, then the fence prefix and suffix are cut off
cleanDecision(response) == response.body

\* json.Unmarshal into the decision struct
Unmarshal(body) ==
    IF ~body.json THEN [ok |-> FALSE]
    ELSE [ok |-> TRUE, use |-> body.use, name |-> body.name, args |-> body.args]

\* json.Marshal(args) in Chat and json.MarshalIndent(args, "", "  ") in ChatStream,
\* as sequences of tokens; MarshalIndent puts white space between them
Whitespace == {" ", "\n", "\n  "}
Marshal(args) == IF args = "nil" THEN <<"null">> ELSE <<"{", "k", ":", "v", "}">>
MarshalIndent(args) ==
    IF args = "nil" THEN <<"null">> ELSE <<"{", "\n  ", "k", ":", " ", "v", "\n", "}">>

argsStrKeepNull(stream, args) ==
    LET argsJSON == IF stream THEN MarshalIndent(args) ELSE Marshal(args)
    IN  IF ~stream /\ argsJSON = <<"null">> THEN <<"{}">> ELSE argsJSON

\* "Convert args to JSON string": argsStr, with "{}" in place of "null"
argsStr(stream, args) ==
    LET argsJSON == IF stream THEN MarshalIndent(args) ELSE Marshal(args)
    IN  IF argsJSON = <<"null">> THEN <<"{}">> ELSE argsJSON

\* the JSON value a tool decodes from its input: white space between tokens is not
\* part of it
JsonValue(str) == SelectSeq(str, LAMBDA t : t \notin Whitespace)

\* selectSkillForTask: [skill, err], err = "" for nil
selectSkillForTask(response) ==
    IF response.kind = "err" THEN [skill |-> "", err |-> "llm"]
    ELSE IF response.kind = "nochoice" THEN [skill |-> "", err |-> "nochoice"]
    ELSE LET d == Unmarshal(cleanDecision(response))
         IN  IF ~d.ok THEN [skill |-> "", err |-> "parse"]
             ELSE IF d.use THEN [skill |-> d.name, err |-> ""]
             ELSE [skill |-> "", err |-> ""]

\* the index of the first entry of names that EqualFold matches name, 0 if none
RECURSIVE FindFold(_, _, _)
FindFold(names, name, i) ==
    IF i > Len(names) THEN 0
    ELSE IF EqualFold(names[i], name) THEN i
    ELSE FindFold(names, name, i + 1)

selectToolForTaskFirst(response, availableTools) ==
    IF response.kind = "err" THEN [tool |-> "", args |-> "nil", err |-> "llm"]
    ELSE IF response.kind = "nochoice" THEN [tool |-> "", args |-> "nil", err |-> "nochoice"]
    ELSE LET d == Unmarshal(cleanDecision(response))
         IN  IF ~d.ok THEN [tool |-> "", args |-> "nil", err |-> "parse"]
             ELSE IF d.use
               THEN LET i == FindFold(availableTools, d.name, 1)
                    IN  [tool |-> availableTools[IF i > 0 THEN i ELSE 1], args |-> d.args,
                         err |-> ""]
             ELSE [tool |-> "", args |-> "nil", err |-> ""]

\* selectToolForTask after the model call: [tool, args, err]; tool = "" for nil
selectToolForTask(response, availableTools) ==
    IF response.kind = "err" THEN [tool |-> "", args |-> "nil", err |-> "llm"]
    ELSE IF response.kind = "nochoice" THEN [tool |-> "", args |-> "nil", err |-> "nochoice"]
    ELSE LET d == Unmarshal(cleanDecision(response))
         IN  IF ~d.ok THEN [tool |-> "", args |-> "nil", err |-> "parse"]
             ELSE IF d.use
               THEN LET i == FindFold(availableTools, d.name, 1)
                    IN  IF i > 0 THEN [tool |-> availableTools[i], args |-> d.args, err |-> ""]
                        ELSE [tool |-> "", args |-> "nil", err |-> "unknown"]
             ELSE [tool |-> "", args |-> "nil", err |-> ""]

\* InitializeToolsAsync pre-loads the skills with a.loadSkillTools outside a.mu, so
\* its writes of a.skills[i].Tools and a.skills[i].Loaded are not ordered with the
\* reads of a loadSkillTools made by Chat under a.mu.  While the pre-load of skill sk
\* is under way such a read sees the entry as it is in step ("sync"), or Loaded set
\* with Tools still nil ("stale"), or Loaded set with a slice header of which only
\* the length has arrived ("torn").
LoadViews(sk) ==
    IF aCatalog.init = "converting" /\ aCatalog.warm <= Len(SkillNames)
            /\ SkillNames[aCatalog.warm] = sk
      THEN {"sync", "stale", "torn"}
      ELSE {"sync"}

\* loadSkillTools: the entry whose name EqualFold matches; an entry not yet loaded is
\* converted (SkillsToTools may fail) and marked Loaded.  [tools, err, loaded, torn]
loadSkillTools(skillName, convOk, view) ==
    LET found == {sk \in aCatalog.skills : EqualFold(sk, skillName)}
    IN  IF found = {}
          THEN [tools |-> <<>>, err |-> "unknown", loaded |-> aLoaded, torn |-> FALSE]
        ELSE LET sk == CHOOSE x \in found : TRUE
             IN  IF view = "stale"
                   THEN [tools |-> <<>>, err |-> "", loaded |-> aLoaded, torn |-> FALSE]
                 ELSE IF view = "torn"
                   THEN [tools |-> <<>>, err |-> "", loaded |-> aLoaded, torn |-> TRUE]
                 ELSE IF sk \in aLoaded
                   THEN [tools |-> SkillTools(sk), err |-> "", loaded |-> aLoaded,
                         torn |-> FALSE]
                 ELSE IF convOk
                   THEN [tools |-> SkillTools(sk), err |-> "", loaded |-> aLoaded \cup {sk},
                         torn |-> FALSE]
                 ELSE [tools |-> <<>>, err |-> "load", loaded |-> aLoaded, torn |-> FALSE]

\* the locals of one chat request, with what it has done so far: the tool Calls
\* issued (calls, each [stage, ok, tool, argsStr]), the final model calls made (nFinal), how the
\* last one ended (final) and the text it returned (text), the failures that were
\* logged (fails, each <<stage, kind>>), the stages whose routing answer was bad
\* (badRouting), the routing questions put to the model (asked, each <<stage,
\* "skill" or "tool">>), the payload of the end event (end), whether the tool
\* list loadSkillTools returned is a torn slice (torn), and the argument string made
\* for the selected tool (argsStr)
IdleCall ==
    [pc |-> "idle", stream |-> FALSE, enableSkills |-> FALSE, enableMCP |-> FALSE,
     tools |-> <<>>, tool |-> "", toolUsed |-> FALSE, toolResult |-> <<>>, toolName |-> "",
     builder |-> <<>>, sink |-> <<>>, events |-> <<>>, ret |-> <<>>, err |-> FALSE,
     calls |-> <<>>, nFinal |-> 0, final |-> "none", fails |-> {}, badRouting |-> {},
     asked |-> {}, text |-> <<>>, end |-> [message |-> <<>>, message_id |-> NoMsgId],
     torn |-> FALSE, argsStr |-> <<>>]

\* a routing answer that does not parse, or that names what no entry of the catalog
\* matches
BadRouting(response, names) ==
    /\ response.kind = "text"
    /\ \/ ~response.body.json
       \/ response.body.use /\ \A i \in 1..Len(names) : ~EqualFold(names[i], response.body.name)

\* the request's locals with the stage marked when the answer was one of those
noteRouting(cl, stage, response, names) ==
    IF BadRouting(response, names) THEN [cl EXCEPT !.badRouting = @ \cup {stage}] ELSE cl

\* streamFunc (HandleChatStream): one chunk event per chunk handed to the sink
onChunk(cl, chunk) ==
    [cl EXCEPT !.sink = Append(@, chunk), !.events = Append(@, "chunk")]

NotifySinkOnly(cl, str) == IF cl.stream THEN onChunk(cl, str) ELSE cl

\* ChatStream: onChunk(ctx, []byte(s)); fullResponseBuilder.WriteString(s).  Chat
\* sends no notice.
Notify(cl, str) ==
    IF cl.stream THEN [onChunk(cl, str) EXCEPT !.builder = @ \o str] ELSE cl

afterSkillStageAlways(cl) ==
    IF aCatalog.toolsEnabled /\ cl.enableMCP /\ Len(aCatalog.mcpTools) > 0
      THEN "selectmcp" ELSE "final"

\* where a request goes after the skill stage: "if !toolUsed && enableMCP &&
\* len(a.mcpTools) > 0", inside "if a.toolsEnabled"
afterSkillStage(cl) ==
    IF aCatalog.toolsEnabled /\ ~cl.toolUsed /\ cl.enableMCP /\ Len(aCatalog.mcpTools) > 0
      THEN "selectmcp" ELSE "final"

afterUserMessageAlways(cl) ==
    IF aCatalog.toolsEnabled /\ aCatalog.skills # {}
      THEN "selectskill" ELSE afterSkillStage(cl)

\* where a request goes after the user message: "if enableSkills && len(a.skills) > 0"
afterUserMessage(cl) ==
    IF aCatalog.toolsEnabled /\ cl.enableSkills /\ aCatalog.skills # {}
      THEN "selectskill" ELSE afterSkillStage(cl)

\* HandleChat from "Add user message to history" on, up to the agent call: the user
\* message is persisted, the flags are read from the request, and HandleChatStream
\* sends the start event before it calls ChatStream
ChatRequests == [stream : BOOLEAN, enableSkills : BOOLEAN, enableMCP : BOOLEAN]

HandleChatDispatch(c, requests) ==
    /\ call[c].pc = "idle"
    /\ AddMessage(TheSession, c, "user", <<"message", c>>)
    /\ \E req \in requests :
        call' = [call EXCEPT ![c] =
                    [IdleCall EXCEPT !.pc = "lock", !.stream = req.stream,
                                     !.enableSkills = req.enableSkills,
                                     !.enableMCP = req.enableMCP,
                                     !.events = IF req.stream THEN <<"start">> ELSE <<>>]]
    /\ UNCHANGED <<aMu, aCatalog, aLoaded, aMessages, lockOrder>>
    /\ UNCHANGED nonAG

muNeverHeld(a) == TRUE

\* a.mu.Lock() returns when no one holds a.mu
muFree(a) == aMu[a] = 0

\* Chat / ChatStream: a.mu.Lock() and "Add user message"
ChatEnter(c) ==
    /\ call[c].pc = "lock"
    /\ muFree(TheAgent)
    /\ aMu' = [aMu EXCEPT ![TheAgent] = c]
    /\ lockOrder' = Append(lockOrder, c)
    /\ aMessages' = Append(aMessages, [req |-> c, role |-> "human", content |-> <<"message", c>>])
    /\ call' = [call EXCEPT ![c].pc = afterUserMessage(call[c])]
    /\ UNCHANGED <<smVars, aCatalog, aLoaded>>
    /\ UNCHANGED nonAG

\* Stage 1: selectSkillForTask (one model call) and, for a selected skill,
\* loadSkillTools; an error of either is logged
SelectSkill(c, responses, convs) ==
    /\ call[c].pc = "selectskill"
    /\ \E response \in responses, convOk \in convs :
      \E view \in LoadViews(Lower(selectSkillForTask(response).skill)) :
        LET sel == selectSkillForTask(response)
            ld == loadSkillTools(sel.skill, convOk, view)
            cl == noteRouting([call[c] EXCEPT !.asked = @ \cup {<<"skill", "skill">>}], "skill", response,
                              SkillNames)
        IN  IF sel.err # ""
              THEN /\ call' = [call EXCEPT ![c] =
                            [cl EXCEPT !.fails = @ \cup {<<"skill", sel.err>>},
                                       !.pc = afterSkillStage(cl)]]
                   /\ UNCHANGED aLoaded
            ELSE IF sel.skill = ""
              THEN /\ call' = [call EXCEPT ![c] = [cl EXCEPT !.pc = afterSkillStage(cl)]]
                   /\ UNCHANGED aLoaded
            ELSE IF ld.err # ""
              THEN /\ call' = [call EXCEPT ![c] =
                            [cl EXCEPT !.fails = @ \cup {<<"skill", ld.err>>},
                                       !.pc = afterSkillStage(cl)]]
                   /\ UNCHANGED aLoaded
            ELSE /\ aLoaded' = ld.loaded
                 /\ call' = [call EXCEPT ![c] = [cl EXCEPT !.tools = ld.tools, !.torn = ld.torn,
                                                            !.pc = "skilltool"]]
    /\ UNCHANGED <<aMu, smVars, aCatalog, aMessages, lockOrder>>
    /\ UNCHANGED nonAG

\* selectToolForTask over availableTools and, on a match, the notice that precedes
\* the Call (ChatStream): the request goes to callPc, else past the stage.  With no
\* tool in availableTools it returns nil before any model call.
selectAndNotify(c, stage, availableTools, responses, callPc) ==
  IF Len(availableTools) = 0
    THEN call' = [call EXCEPT ![c].pc = IF stage = "skill" THEN afterSkillStage(call[c])
                                                           ELSE "final"]
    ELSE
    \E response \in responses :
        LET sel == selectToolForTask(response, availableTools)
            cl == noteRouting([call[c] EXCEPT !.asked = @ \cup {<<stage, "tool">>}], stage,
                              response, availableTools)
        IN  IF sel.err # ""
              THEN call' = [call EXCEPT ![c] =
                        [cl EXCEPT !.fails = @ \cup {<<stage, sel.err>>},
                                   !.pc = IF stage = "skill" THEN afterSkillStage(cl) ELSE "final"]]
            ELSE IF sel.tool = ""
              THEN call' = [call EXCEPT ![c] =
                        [cl EXCEPT !.pc = IF stage = "skill" THEN afterSkillStage(cl) ELSE "final"]]
            ELSE call' = [call EXCEPT ![c] =
                        [Notify([cl EXCEPT !.tool = sel.tool,
                                           !.argsStr = argsStr(cl.stream, sel.args),
                                           !.toolName = IF cl.stream THEN sel.tool ELSE @],
                                notifyStart(sel.tool))
                            EXCEPT !.pc = callPc]]

\* Stage 2: "Select specific tool from the skill"
SelectSkillTool(c, responses) ==
    /\ call[c].pc = "skilltool"
    /\ ~call[c].torn
    /\ selectAndNotify(c, "skill", call[c].tools, responses, "skillcall")
    /\ UNCHANGED <<aMu, smVars, aCatalog, aLoaded, aMessages, lockOrder>>
    /\ UNCHANGED nonAG

\* selectToolForTask ranges over a torn tool list: the first element is read through
\* a nil pointer, the goroutine panics, the deferred a.mu.Unlock() runs and the
\* handler writes no answer
ChatPanic(c) ==
    /\ call[c].pc = "skilltool"
    /\ call[c].torn
    /\ call' = [call EXCEPT ![c].pc = "panic"]
    /\ aMu' = [aMu EXCEPT ![TheAgent] = 0]
    /\ UNCHANGED <<smVars, aCatalog, aLoaded, aMessages, lockOrder>>
    /\ UNCHANGED nonAG

\* "If no skill was selected, try MCP tools"
SelectMcpTool(c, responses) ==
    /\ call[c].pc = "selectmcp"
    /\ selectAndNotify(c, "mcp", aCatalog.mcpTools, responses, "mcpcall")
    /\ UNCHANGED <<aMu, smVars, aCatalog, aLoaded, aMessages, lockOrder>>
    /\ UNCHANGED nonAG

\* what (*tool).Call returns: an error (a timeout is one), or a result string
ToolResults == {<<>>, <<"tool output">>}
ToolOutcomes == {[ok |-> FALSE, err |-> "call failed"]} \cup {[ok |-> TRUE, result |-> r] : r \in ToolResults}

toolCallAbort(cl, stage, outcome) ==
    LET called == [cl EXCEPT !.calls = Append(@, [stage |-> stage, ok |-> outcome.ok,
                                                   tool |-> cl.tool, argsStr |-> cl.argsStr])]
    IN  IF ~outcome.ok
          THEN [Notify(called, notifyError(outcome.err))
                    EXCEPT !.fails = @ \cup {<<stage, "exec">>}, !.err = TRUE]
          ELSE Notify([called EXCEPT !.toolUsed = TRUE, !.toolResult = outcome.result,
                                     !.toolName = cl.tool],
                      notifyResult(cl.tool, outcome.result))

\* "Call the tool" and what follows it in the stage: a failure is logged (ChatStream
\* sends the error notice); a success sets toolUsed, toolResult and toolName
\* (ChatStream sends the result block)
toolCall(cl, stage, outcome) ==
    LET called == [cl EXCEPT !.calls = Append(@, [stage |-> stage, ok |-> outcome.ok,
                                                   tool |-> cl.tool, argsStr |-> cl.argsStr])]
    IN  IF ~outcome.ok
          THEN [Notify(called, notifyError(outcome.err)) EXCEPT !.fails = @ \cup {<<stage, "exec">>}]
          ELSE Notify([called EXCEPT !.toolUsed = TRUE, !.toolResult = outcome.result,
                                     !.toolName = cl.tool],
                      notifyResult(cl.tool, outcome.result))

\* the Call of the tool selected from the skill
CallSkillTool(c, outcomes) ==
    /\ call[c].pc = "skillcall"
    /\ \E outcome \in outcomes :
        LET cl == toolCall(call[c], "skill", outcome)
        IN  call' = [call EXCEPT ![c] = [cl EXCEPT !.pc = afterSkillStage(cl)]]
    /\ UNCHANGED <<aMu, smVars, aCatalog, aLoaded, aMessages, lockOrder>>
    /\ UNCHANGED nonAG

\* the Call of the selected MCP tool
CallMcpTool(c, outcomes) ==
    /\ call[c].pc = "mcpcall"
    /\ \E outcome \in outcomes :
        call' = [call EXCEPT ![c] = [toolCall(call[c], "mcp", outcome) EXCEPT !.pc = "final"]]
    /\ UNCHANGED <<aMu, smVars, aCatalog, aLoaded, aMessages, lockOrder>>
    /\ UNCHANGED nonAG

\* the chunks a model call may stream, and its outcomes: it streams the chunks and
\* then returns the text (ok) or an error
ChunkValues == {<<"a">>, <<"b">>}
ChunkSeqs == UNION {[1..n -> ChunkValues] : n \in 0..MaxChunks}
ModelOutcomes == [chunks : ChunkSeqs, ok : BOOLEAN]

\* response.Choices[0].Content of a.llm.GenerateContent: the openai client builds it
\* by appending every content delta, each of which it first hands to the streaming
\* function
responseText(chunks) == Flatten(chunks)

\* llms.WithStreamingFunc(onChunk): the model hands over its chunks in order
RECURSIVE streamChunks(_, _)
streamChunks(cl, chunks) ==
    IF chunks = <<>> THEN cl ELSE streamChunks(onChunk(cl, Head(chunks)), Tail(chunks))

withToolMessageInFront(c, cl) ==
    IF cl.toolUsed /\ cl.toolResult # <<>>
      THEN <<[req |-> c, role |-> "system",
              content |-> toolMessage(cl.toolName, cl.toolResult)]>> \o aMessages
      ELSE aMessages

\* "Add tool result to conversation if a tool was used"
withToolMessage(c, cl) ==
    IF cl.toolUsed /\ cl.toolResult # <<>>
      THEN Append(aMessages, [req |-> c, role |-> "system",
                              content |-> toolMessage(cl.toolName, cl.toolResult)])
      ELSE aMessages

fullResponseTextOnly(cl, text) == text

\* what Chat / ChatStream put into the assistant message and return: ChatStream
\* the builder with the model's text appended, Chat the model's text
fullResponse(cl, text) == IF cl.stream THEN cl.builder \o text ELSE text

\* the rest of Chat / ChatStream: the tool message, the final model call, the
\* assistant message, and the deferred a.mu.Unlock()
FinalModelCall(c, outcomes) ==
    /\ call[c].pc = "final"
    /\ \E outcome \in outcomes :
        LET cl == IF call[c].stream THEN streamChunks(call[c], outcome.chunks) ELSE call[c]
            history == withToolMessage(c, cl)
            text == responseText(outcome.chunks)
        IN  IF ~outcome.ok
              THEN /\ aMessages' = history
                   /\ call' = [call EXCEPT ![c] =
                                [cl EXCEPT !.pc = "ret", !.err = TRUE, !.nFinal = @ + 1,
                                           !.final = "failed"]]
              ELSE /\ aMessages' = Append(history, [req |-> c, role |-> "ai",
                                                    content |-> fullResponse(cl, text)])
                   /\ call' = [call EXCEPT ![c] =
                                [cl EXCEPT !.pc = "ret", !.ret = fullResponse(cl, text),
                                           !.builder = IF cl.stream THEN @ \o text ELSE @,
                                           !.nFinal = @ + 1, !.final = "ok", !.text = text]]
    /\ aMu' = [aMu EXCEPT ![TheAgent] = 0]
    /\ UNCHANGED <<smVars, aCatalog, aLoaded, lockOrder>>
    /\ UNCHANGED nonAG

\* the payload of the end event: "message": response, "message_id": msgID
NoEnd == [message |-> <<>>, message_id |-> NoMsgId]
endData(response, id) == [message |-> response, message_id |-> id]

terminalAlwaysEnd(err) == "end"

\* HandleChatStream after ChatStream returned: "if err != nil" the error event and
\* return, else the end event
terminalEvent(err) == IF err THEN "error" ELSE "end"

\* HandleChatNonStream / HandleChatStream after the agent call: on an error the 500
\* answer or the error event; else the assistant message is persisted and the JSON
\* answer or the end event is written.  The handler returns: only the events it
\* wrote and the outcome are kept.
HandleChatEnd(c) ==
    /\ call[c].pc = "ret"
    /\ IF call[c].err
         THEN UNCHANGED smVars
         ELSE AddMessage(TheSession, c, "assistant", call[c].ret)
    /\ call' = [call EXCEPT ![c] =
                [IdleCall EXCEPT !.pc = "done", !.stream = call[c].stream, !.err = call[c].err,
                                 !.sink = call[c].sink, !.text = call[c].text,
                                 !.end = IF call[c].stream /\ ~call[c].err
                                           THEN endData(call[c].ret,
                                                        msgID(TheSession, c, "assistant"))
                                           ELSE NoEnd,
                                 !.events = IF call[c].stream
                                              THEN Append(call[c].events,
                                                          terminalEvent(call[c].err))
                                              ELSE <<>>]]
    /\ UNCHANGED <<aMu, aCatalog, aLoaded, aMessages, lockOrder>>
    /\ UNCHANGED nonAG

\* the catalogs discovery can leave: toolsEnabled is set together with the first
\* skill descriptors or MCP tools
Catalogs ==
    {k \in [toolsEnabled : BOOLEAN, skills : {{}, SkillCatalog}, mcpTools : {<<>>, McpCatalog},
            init : {"done"}, warm : {1}] :
        (k.skills # {} \/ k.mcpTools # <<>>) => k.toolsEnabled}

\* the answers to the questions one request can put: the model's to the skill
\* question and to the tool question of each stage, SkillsToTools' (conv), the
\* called tool's in each stage, and the final model call's
NoAnswers ==
    [skill |-> [kind |-> "err"], conv |-> FALSE, skilltool |-> [kind |-> "err"],
     skillcall |-> [ok |-> FALSE, err |-> "call failed"], mcptool |-> [kind |-> "err"],
     mcpcall |-> [ok |-> FALSE, err |-> "call failed"],
     final |-> [chunks |-> <<>>, ok |-> FALSE]]

\* NewSimpleChatAgent, and discovery finished with one of the catalogs
InitAG(catalogs) ==
    /\ aCatalog \in catalogs
    /\ aLoaded = {}
    /\ aMessages = <<systemMsg>>
    /\ lockOrder = <<>>
    /\ call = [c \in Calls |-> IdleCall]
    /\ answers = NoAnswers

\* InitializeToolsAsync, "Load Skills": the directory is missing or does not parse
\* (the catalog stays as it is), or under a.mu every skill descriptor is appended and
\* toolsEnabled is set
InitLoadSkills ==
    /\ aCatalog.init = "skills"
    /\ \E ok \in BOOLEAN :
        IF ok
          THEN /\ muFree(TheAgent)
               /\ aCatalog' = [aCatalog EXCEPT !.skills = SkillCatalog, !.toolsEnabled = TRUE,
                                               !.init = "prewarm", !.warm = 1]
          ELSE aCatalog' = [aCatalog EXCEPT !.init = "mcp"]
    /\ UNCHANGED <<aMu, smVars, aLoaded, aMessages, lockOrder, call>>
    /\ UNCHANGED nonAG

\* InitializeToolsAsync, "Pre-warm": loadSkillTools of the next skill, without a.mu,
\* reads Loaded; a loaded skill is passed over, else SkillsToTools starts
InitPrewarmRead ==
    /\ aCatalog.init = "prewarm"
    /\ aCatalog' =
         IF aCatalog.warm > Len(SkillNames) THEN [aCatalog EXCEPT !.init = "mcp"]
         ELSE IF SkillNames[aCatalog.warm] \in aLoaded THEN [aCatalog EXCEPT !.warm = @ + 1]
         ELSE [aCatalog EXCEPT !.init = "converting"]
    /\ UNCHANGED <<aMu, smVars, aLoaded, aMessages, lockOrder, call>>
    /\ UNCHANGED nonAG

\* InitializeToolsAsync, "Pre-warm": SkillsToTools has returned; on success Tools and
\* Loaded of the entry are written, still without a.mu; an error is logged
InitPrewarmStore ==
    /\ aCatalog.init = "converting"
    /\ \E convOk \in BOOLEAN :
        aLoaded' = IF convOk THEN aLoaded \cup {SkillNames[aCatalog.warm]} ELSE aLoaded
    /\ aCatalog' = [aCatalog EXCEPT !.init = "prewarm", !.warm = @ + 1]
    /\ UNCHANGED <<aMu, smVars, aMessages, lockOrder, call>>
    /\ UNCHANGED nonAG

\* InitializeToolsAsync, "Load MCP": initializeMCP fails or finds no tool (the
\* catalog stays as it is), or under a.mu the tools are stored and toolsEnabled is
\* set; the goroutine ends
InitLoadMCP ==
    /\ aCatalog.init = "mcp"
    /\ \E ok \in BOOLEAN :
        IF ok
          THEN /\ muFree(TheAgent)
               /\ aCatalog' = [aCatalog EXCEPT !.mcpTools = McpCatalog, !.toolsEnabled = TRUE,
                                               !.init = "done"]
          ELSE aCatalog' = [aCatalog EXCEPT !.init = "done"]
    /\ UNCHANGED <<aMu, smVars, aLoaded, aMessages, lockOrder, call>>
    /\ UNCHANGED nonAG

\* one chat request through the whole routing protocol, every answer of the model
\* and of the tools possible
NextRoute ==
    \/ HandleChatDispatch(1, ChatRequests)
    \/ ChatEnter(1)
    \/ SelectSkill(1, RoutingResponses(SkillAnswers), BOOLEAN)
    \/ SelectSkillTool(1, RoutingResponses(ToolAnswers))
    \/ CallSkillTool(1, ToolOutcomes)
    \/ SelectMcpTool(1, RoutingResponses(ToolAnswers))
    \/ CallMcpTool(1, ToolOutcomes)
    \/ FinalModelCall(1, ModelOutcomes)
    \/ HandleChatEnd(1)

\* the answers and requests of the specification of concurrent requests: the model
\* declines or names the MCP tool, and streams one chunk before it returns or fails
OrderRouting ==
    {[kind |-> "text", fence |-> "none",
      body |-> [json |-> TRUE, use |-> u, name |-> "m1", args |-> "nil"]] : u \in BOOLEAN}
OrderOutcomes == [chunks : {<< <<"a">> >>}, ok : BOOLEAN]
OrderRequests == [stream : BOOLEAN, enableSkills : {FALSE}, enableMCP : {TRUE}]

\* concurrent chat requests on one agent whose catalog holds the MCP tool
NextOrder ==
    \E c \in Calls :
        \/ HandleChatDispatch(c, OrderRequests)
        \/ ChatEnter(c)
        \/ SelectMcpTool(c, OrderRouting)
        \/ CallMcpTool(c, ToolOutcomes)
        \/ FinalModelCall(c, OrderOutcomes)
        \/ HandleChatEnd(c)

\* the answers of the specification of two calls: the model fails, declines, names
\* the entry (without and with arguments) or names no entry
PairRouting(name) ==
    {[kind |-> "err"]}
        \cup {[kind |-> "text", fence |-> "none", body |-> b] :
                b \in {x \in Bodies({name, "zz"}) : x.json /\ (x.name = "zz" => x.use /\ x.args = "nil")}}
PairAnswers ==
    [skill : {r \in PairRouting("s1") : r.kind = "text" => r.body.args = "nil"},
     conv : BOOLEAN, skilltool : PairRouting("T1"), skillcall : ToolOutcomes,
     mcptool : PairRouting("m1"), mcpcall : ToolOutcomes, final : OrderOutcomes]

\* one request through Chat, then one with the same flags through ChatStream, on the
\* agent the first left, each question answered as it was answered before
NextPair ==
    \/ HandleChatDispatch(1, [stream : {FALSE}, enableSkills : BOOLEAN, enableMCP : BOOLEAN])
    \/ /\ call[1].pc = "ret"
       /\ HandleChatDispatch(2, {[stream |-> TRUE, enableSkills |-> call[1].enableSkills,
                                  enableMCP |-> call[1].enableMCP]})
    \/ \E c \in {1, 2} :
        \/ ChatEnter(c)
        \/ SelectSkill(c, {answers.skill}, {answers.conv})
        \/ SelectSkillTool(c, {answers.skilltool})
        \/ CallSkillTool(c, {answers.skillcall})
        \/ SelectMcpTool(c, {answers.mcptool})
        \/ CallMcpTool(c, {answers.mcpcall})
        \/ FinalModelCall(c, {answers.final})

\* chat requests that only persist their messages: the agent has no tool, the model
\* answers or fails
NextHistory ==
    \E c \in Calls :
        \/ HandleChatDispatch(c, {[stream |-> FALSE, enableSkills |-> FALSE, enableMCP |-> FALSE]})
        \/ ChatEnter(c)
        \/ FinalModelCall(c, OrderOutcomes)
        \/ HandleChatEnd(c)

\* one chat request on an agent whose catalog is being discovered
NextDiscover ==
    \/ InitLoadSkills
    \/ InitPrewarmRead
    \/ InitPrewarmStore
    \/ InitLoadMCP
    \/ HandleChatDispatch(1, ChatRequests)
    \/ ChatEnter(1)
    \/ SelectSkill(1, RoutingResponses({"s1", "zz"}), BOOLEAN)
    \/ SelectSkillTool(1, RoutingResponses({"t1", "zz"}))
    \/ ChatPanic(1)
    \/ CallSkillTool(1, ToolOutcomes)
    \/ SelectMcpTool(1, RoutingResponses({"m1", "zz"}))
    \/ CallMcpTool(1, ToolOutcomes)
    \/ FinalModelCall(1, OrderOutcomes)
    \/ HandleChatEnd(1)

-----------------------------------------------------------------------------
(* Specifications *)

\* the lifecycle manager that follows agent a: NewChatServer constructs one
\* AgentLifecycleManager and keeps it in cs.lifecycleManager; GetOrCreateAgent and
\* NewSimpleChatAgent construct none
lifecycleManagerOf(a) == "cs.lifecycleManager"

\* the server with no request: the state the other specifications keep it in
RestCS ==
    /\ InitCS(Sessions, {})
    /\ maxConcurrent = 1

\* the agent with no request: the state the other specifications keep it in
RestAG ==
    InitAG({[toolsEnabled |-> FALSE, skills |-> {}, mcpTools |-> <<>>, init |-> "done", warm |-> 1]})

\* the AuthService under concurrent logins, refreshes and logouts
InitSpecAuth == InitLM /\ RestCS /\ RestAG
SpecAuth == InitSpecAuth /\ [][NextAuth]_vars

\* the lifecycle manager on its own
InitSpecLM == InitLM /\ RestCS /\ RestAG
SpecLM == InitSpecLM /\ [][NextLM]_vars

\* the lifecycle manager with all three background loops
InitSpecLoops == InitSpecLM
SpecLoops == InitSpecLoops /\ [][NextLoops]_vars

\* the lifecycle manager and its health checker
InitSpecHealth == InitSpecLM
SpecHealth == InitSpecHealth /\ [][NextHealth]_vars

\* chat requests against the admission semaphore, naming a session that was created
\* or the one id that was not; the lifecycle manager is left as constructed
InitSpecAdmit == InitCS(Sessions \ {NSessions}, {}) /\ InitLM /\ RestAG
SpecAdmit == InitSpecAdmit /\ [][NextAdmit]_vars

\* chat requests and feedback requests on the messages they persist
InitSpecFeedback == InitSpecAdmit
SpecFeedback == InitSpecFeedback /\ [][NextFeedback]_vars

\* the owner of the sessions chats while another client sends requests that name
\* the owner's session ids
InitSpecForeign == InitSpecAdmit
SpecForeign == InitSpecForeign /\ [][NextForeign]_vars

\* chat requests on a session that has an agent, and deletions of that session
InitSpecDel == InitCS(Sessions, {TheSession}) /\ InitLM /\ RestAG
SpecDel == InitSpecDel /\ [][NextDel]_vars

\* the same, with AddMessage in its two parts
InitSpecStale == InitSpecDel
SpecStale == InitSpecStale /\ [][NextStale]_vars

\* chat requests on two sessions while one of them is listed and deleted
InitSpecBlock == InitCS(Sessions, {TheSession}) /\ InitLM /\ RestAG
SpecBlock == InitSpecBlock /\ [][NextBlock]_vars

\* chat requests on an agent that GetOrCreateAgent has just constructed:
\* InitializeToolsAsync has started its goroutine and the catalog is empty
InitSpecDiscover ==
    /\ InitCS(Sessions, {TheSession})
    /\ maxConcurrent = 1
    /\ InitLM
    /\ InitAG({[toolsEnabled |-> FALSE, skills |-> {}, mcpTools |-> <<>>, init |-> "skills",
                 warm |-> 1]})
SpecDiscover == InitSpecDiscover /\ [][NextDiscover]_vars

\* two chat requests, one after the other, on an agent whose discovery found the
\* skill and the MCP tool; the skill is loaded or not
InitSpecPair ==
    /\ InitCS(Sessions, {TheSession})
    /\ maxConcurrent = 1
    /\ InitLM
    /\ aCatalog = [toolsEnabled |-> TRUE, skills |-> SkillCatalog, mcpTools |-> McpCatalog,
                   init |-> "done", warm |-> 1]
    /\ aLoaded \in SUBSET SkillCatalog
    /\ aMessages = <<systemMsg>>
    /\ lockOrder = <<>>
    /\ call = [c \in Calls |-> IdleCall]
    /\ answers \in PairAnswers
SpecPair == InitSpecPair /\ [][NextPair]_vars

\* chat requests on a session whose manager was built with a history limit from
\* MAX_HISTORY_SIZE: none (zero or negative) or a small one
InitSpecHistory ==
    /\ \E limit \in -1..MaxKeep : InitCSWith(Sessions, {TheSession}, limit)
    /\ maxConcurrent = 1
    /\ InitLM
    /\ RestAG
SpecHistory == InitSpecHistory /\ [][NextHistory]_vars

\* one chat request on the agent of a session
InitSpecRoute == InitCS(Sessions, {TheSession}) /\ maxConcurrent = 1 /\ InitLM /\ InitAG(Catalogs)
SpecRoute == InitSpecRoute /\ [][NextRoute]_vars

\* concurrent chat requests on the agent of a session
InitSpecOrder ==
    /\ InitCS(Sessions, {TheSession})
    /\ maxConcurrent = 1
    /\ InitLM
    /\ InitAG({[toolsEnabled |-> TRUE, skills |-> {}, mcpTools |-> McpCatalog, init |-> "done",
                 warm |-> 1]})
SpecOrder == InitSpecOrder /\ [][NextOrder]_vars

\* tool-list and delete requests against the session->agent registry
InitSpecReg == RestCS /\ InitLM /\ RestAG
SpecReg == InitSpecReg /\ [][NextReg]_vars

-----------------------------------------------------------------------------
(* Claims about the AgentLifecycleManager, checked under SpecLM *)

\* C1: a SetState call whose (current, next) pair is not an edge of the adjacency
\* table returns an error and leaves the state as it was before the call.
C1_InvalidTransitionRejected ==
    (lmRet.caller # "none" /\ ~isValidTransition(lmRet.from, lmRet.to))
        => (lmRet.err /\ lmState = lmRet.from)

\* C14: while the manager has not been stopped, the idle monitor is running, and a
\* tick of it that finds the state Running or Ready and then now - lastActivity above
\* MaxIdleTime issues SetState(Stopping) before the tick ends.
C14_IdleStopWithinTick ==
    /\ []((~lmCtxDone /\ ~lmCrashed) => lmIdlePc \in {"wait", "active"})
    /\ []((lmIdlePc = "wait" /\ ~lmCrashed /\ lmState \in {StateRunning, StateReady})
            => ENABLED IdleReadState)
    /\ [][(lmIdlePc = "active" /\ lmIdlePc' = "wait"
              /\ lmNow - lmLastActivity > MaxIdleTime)
            => /\ lmRet' = [caller |-> "idle", from |-> lmState, to |-> StateStopping,
                            err |-> ~isValidTransition(lmState, StateStopping)]
               /\ lmState' = StateStopping]_vars

\* the monitor found the manager Ready and idle for more than MaxIdleTime and has
\* moved it to Stopping
C14_Witness ==
    /\ lmRet = [caller |-> "idle", from |-> StateReady, to |-> StateStopping, err |-> FALSE]
    /\ lmState = StateStopping
    /\ lmStopPc = 0

\* C15: SetState(next) called in state current, for an edge (current, next) of the
\* table, returns no error, leaves the state next, stamps the activity time, and
\* enqueues one event carrying next when the queue has room.
C15_ValidEdgeSucceeds ==
    [][(lmRet' # lmRet /\ isValidTransition(lmState, lmRet'.to)) =>
            /\ ~lmRet'.err
            /\ lmRet'.from = lmState
            /\ lmState' = lmRet'.to
            /\ lmLastActivity' = lmNow
            /\ ~lmCrashed'
            /\ lmEventChan' = IF Len(lmEventChan) < EventChanCap
                                THEN Append(lmEventChan, lmRet'.to)
                                ELSE lmEventChan]_vars

-----------------------------------------------------------------------------
(* Claims about admission, checked under SpecAdmit *)

\* the HandleChat pipelines that hold an admission slot: past acquireRequest and
\* not yet returned
InFlight == {r \in Requests : rKind[r] = "chat" /\ rPc[r] # "idle"}

\* C2: at every instant the number of HandleChat pipelines that have acquired an
\* admission slot and not yet returned is at most maxConcurrent.
C2_InFlightAtMostMax == Cardinality(InFlight) <= maxConcurrent

\* every slot is taken, by a pipeline admitted after an earlier one returned its
\* slot, and the request that came then was turned away
C2_Witness ==
    /\ Cardinality(InFlight) = maxConcurrent
    /\ nReturn > 0
    /\ resp.code = 429

\* C3: while no admitted chat request has completed, of the N requests that have
\* attempted admission exactly min(N, maxConcurrent) were admitted and every other
\* one was answered 429 by the attempt itself (no request waits for a slot).
C3_AdmitsExactlyMin ==
    nReturn = 0 =>
        /\ nAdmit = Min(nAttempt, maxConcurrent)
        /\ nBusy = nAttempt - nAdmit
        /\ Cardinality(InFlight) = nAdmit

\* maxConcurrent = 1 and two requests: one proceeds, the other has just got 429
C3_Witness ==
    /\ maxConcurrent = 1
    /\ nAttempt = 2
    /\ nAdmit = 1
    /\ nBusy = 1
    /\ nReturn = 0
    /\ resp.code = 429
    /\ \E r \in InFlight : rId[r] # resp.id

\* C11: every successful acquireRequest is followed by exactly one releaseRequest on
\* every exit of HandleChat (400, 404, 500, panic, 200) and no release runs without
\* an acquire: the occupied slots are exactly the pipelines in flight, they are the
\* admissions minus the returns, and with no chat request in flight there are none.
C11_SlotsAreInFlight ==
    /\ requestSem = Cardinality(InFlight)
    /\ requestSem = nAdmit - nReturn
    /\ InFlight = {} => requestSem = 0

\* two admitted requests have returned, the last one by a panic, and no slot is held
C11_Witness ==
    /\ nReturn >= 2
    /\ resp.code = 0 /\ resp.id > 0
    /\ InFlight = {}
    /\ requestSem = 0

\* C12: a chat request answered 429 or 404 leaves no trace: the step that answers 429
\* changes neither the session store, the registry, an agent history nor the slots;
\* a request answered 404 took a slot in its admission step, which changed nothing
\* else, and gives it back in the step that answers, which changes nothing else.
C12_RejectedLeavesNoTrace ==
    [][/\ (resp' # resp /\ resp'.code = 429) =>
            UNCHANGED <<smVars, agents, warmup, nBuilt, aMessages, requestSem>>
       /\ (resp' # resp /\ resp'.code = 404) =>
            /\ UNCHANGED <<smVars, agents, warmup, nBuilt, aMessages>>
            /\ requestSem' = requestSem - 1
       /\ nAdmit' # nAdmit =>
            /\ UNCHANGED <<smVars, agents, warmup, nBuilt, aMessages>>
            /\ requestSem' = requestSem + 1]_vars

\* a request was turned away with 429, another one named the session that does not
\* exist and has just been answered 404; no slot is held and that id has neither
\* messages nor an agent
C12_Witness ==
    /\ nBusy >= 1
    /\ resp.code = 404
    /\ requestSem = 0
    /\ smMessages[NSessions] = <<>>
    /\ NSessions \notin smSessions \cup smFiles
    /\ agents[NSessions] = NoAgent

-----------------------------------------------------------------------------
(* Claims about the registry, checked under SpecReg *)

\* the handlers to which GetOrCreateAgent has returned an agent, for session s, since
\* the last deletion of s
Returned(s) ==
    {r \in Requests : /\ rKind[r] \in {"chat", "tools"}
                      /\ rSid[r] = s
                      /\ rAgent[r] # NoAgent
                      /\ rEpoch[r] = epoch[s]}

\* C10: between two deletions of a session id, exactly one agent is constructed for
\* it however the GetOrCreateAgent calls interleave, every call returns that
\* instance, and calls for distinct ids return distinct instances.
C10_GetOrCreateIdempotent ==
    /\ \A s \in Sessions :
        /\ nMade[s] <= 1
        /\ \A r \in Returned(s) : nMade[s] = 1 /\ rAgent[r] = agents[s]
    /\ \A r1, r2 \in Requests :
        (rAgent[r1] # NoAgent /\ rAgent[r2] # NoAgent /\ rSid[r1] # rSid[r2])
            => rAgent[r1] # rAgent[r2]

\* one call has constructed and returned the agent while a concurrent call for the
\* same id, which missed on the optimistic read, is about to take the write lock
C10_Witness ==
    \E r1, r2 \in Requests :
        /\ r1 # r2
        /\ rSid[r1] = rSid[r2]
        /\ rPc[r1] = "respond"
        /\ rAgent[r1] = agents[rSid[r1]]
        /\ rPc[r2] = "create"

-----------------------------------------------------------------------------
(* Claims about the routing protocol, checked under SpecRoute *)

\* the Calls of a request that succeeded, and those issued in a stage
OkCalls(cl) == {i \in 1..Len(cl.calls) : cl.calls[i].ok}
StageCalls(cl, stage) == {i \in 1..Len(cl.calls) : cl.calls[i].stage = stage}

IsPrefix(s, t) == Len(s) <= Len(t) /\ SubSeq(t, 1, Len(s)) = s

\* the events written so far for a streamed request: start first, then chunks only,
\* and once the handler has returned a last event that is error after a failed
\* call and end otherwise
EventShape(cl) ==
    LET ev == cl.events
        n == Len(ev)
    IN  (cl.stream /\ cl.pc # "idle") =>
            /\ n >= 1
            /\ ev[1] = "start"
            /\ \A i \in 2..(n - 1) : ev[i] = "chunk"
            /\ IF cl.pc = "done"
                 THEN n >= 2 /\ ev[n] = (IF cl.err THEN "error" ELSE "end")
                 ELSE \A i \in 2..n : ev[i] = "chunk"
            /\ cl.pc = "ret" => n = 1 + Len(cl.sink)

\* C6: a streaming response is one start, then chunk events, then exactly one
\* terminal event, end or error, with nothing after it; a final model call that
\* fails after chunks were sent ends the stream with error and no end, and no event
\* already written is ever taken back.
C6_StreamEvents ==
    /\ [](\A c \in Calls : EventShape(call[c]))
    /\ [][\A c \in Calls : IsPrefix(call[c].events, call[c].events')]_vars

\* a streamed request whose final model call failed after two chunks
C6_Witness ==
    /\ call[1].pc = "done" /\ call[1].stream /\ call[1].err
    /\ call[1].events = <<"start", "chunk", "chunk", "error">>

\* C7 as stated: at most one tool Call is issued in a request.
C7_AtMostOneCall == \A c \in Calls : Len(call[c].calls) <= 1

\* C7, amended: at most one tool Call succeeds in a request; each stage issues at
\* most one Call, and no Call follows a successful one (the MCP stage issues its Call
\* only when the skill stage issued none or its Call failed).
C7_AtMostOneSuccess ==
    \A c \in Calls :
        /\ Cardinality(OkCalls(call[c])) <= 1
        /\ \A stage \in {"skill", "mcp"} : Cardinality(StageCalls(call[c], stage)) <= 1
        /\ \A i \in OkCalls(call[c]) : i = Len(call[c].calls)

\* the Call of the skill tool failed and the Call of the MCP tool succeeded
C7_Witness ==
    /\ Len(call[1].calls) = 2
    /\ call[1].calls[1].stage = "skill" /\ ~call[1].calls[1].ok
    /\ call[1].calls[2].stage = "mcp" /\ call[1].calls[2].ok

\* C8 as stated: a request in which a routing answer did not parse or named an
\* unknown skill or tool issues no tool Call, makes the final model call, and does
\* not fail unless that call fails.
C8_BadRoutingNoCall ==
    \A c \in Calls :
        (call[c].pc = "ret" /\ call[c].badRouting # {}) =>
            /\ call[c].calls = <<>>
            /\ call[c].nFinal = 1
            /\ call[c].err => call[c].final = "failed"

\* C8, amended: the stage in which a routing answer did not parse or named an
\* unknown skill or tool issues no tool Call, and the request still makes the final
\* model call once and fails only if that call fails; the other stage may issue a
\* Call.
C8_BadRoutingNoCallInStage ==
    \A c \in Calls :
        /\ \A stage \in call[c].badRouting : StageCalls(call[c], stage) = {}
        /\ (call[c].pc = "ret" /\ call[c].badRouting # {}) =>
                /\ call[c].nFinal = 1
                /\ call[c].err <=> call[c].final = "failed"

\* with both flags set the skill routing answer was bad, the MCP stage called its
\* tool, and the request returned an answer
C8_Witness ==
    /\ call[1].pc = "ret" /\ ~call[1].err
    /\ call[1].enableSkills /\ call[1].enableMCP
    /\ "skill" \in call[1].badRouting
    /\ Len(call[1].calls) = 1
    /\ call[1].calls[1].stage = "mcp" /\ call[1].calls[1].ok

\* C9: Chat and ChatStream return an error exactly when the final model call fails; a
\* failed selection call, a failed skill load or a failed tool Call never makes the
\* request fail, and the final model call is made exactly once.
C9_ErrorIffFinalFails ==
    \A c \in Calls :
        /\ call[c].pc \in {"lock", "selectskill", "skilltool", "skillcall", "selectmcp",
                           "mcpcall", "final"} => (~call[c].err /\ call[c].nFinal = 0)
        /\ call[c].pc = "ret" =>
                /\ call[c].nFinal = 1
                /\ call[c].err <=> call[c].final = "failed"

\* a request returned an answer after the Call of the skill tool failed and the
\* selection call of the MCP stage failed
C9_Witness ==
    /\ call[1].pc = "ret" /\ ~call[1].err /\ call[1].final = "ok"
    /\ <<"skill", "exec">> \in call[1].fails
    /\ <<"mcp", "llm">> \in call[1].fails

-----------------------------------------------------------------------------
(* Claims about concurrent requests on one agent, checked under SpecOrder *)

\* the place of a request in the order in which the requests took a.mu
Pos(c) == CHOOSE i \in 1..Len(lockOrder) : lockOrder[i] = c

\* the roles of the messages of a request in the history, in order
MsgOf(c, m) == m.req = c
Block(c) == SelectSeq(aMessages, LAMBDA m : MsgOf(c, m))
Roles(ms) == [i \in 1..Len(ms) |-> ms[i].role]

\* the messages after the system message are in the order the requests took the
\* lock, those of one request next to each other; the holder of the lock has added
\* its user message only
InEntryOrder ==
    /\ aMessages[1] = systemMsg
    /\ \A i \in 2..Len(aMessages) : aMessages[i].req \in Calls
    /\ \A i, j \in 2..Len(aMessages) :
            i < j => Pos(aMessages[i].req) <= Pos(aMessages[j].req)
    /\ \A c \in Calls : aMu[TheAgent] = c => Roles(Block(c)) = <<"human">>

\* C4 as stated: the history holds the requests' messages in the order the requests
\* entered the agent, and each request's user message is followed by its optional
\* tool message and its assistant message before any message of another request.
C4_BlocksEndWithAssistant ==
    /\ InEntryOrder
    /\ \A c \in Calls :
            call[c].pc \in {"ret", "done"} =>
                Roles(Block(c)) \in {<<"human", "ai">>, <<"human", "system", "ai">>}

\* C4, amended: the history holds the requests' messages in the order the requests
\* entered the agent, with no interleaving; each request's user message is followed
\* by its optional tool message and, when its final model call succeeded, by its
\* assistant message, before any message of another request.
C4_EntryOrderNoInterleaving ==
    /\ InEntryOrder
    /\ \A c \in Calls :
            call[c].pc \in {"ret", "done"} =>
                Roles(Block(c)) \in
                    (IF call[c].err THEN {<<"human">>, <<"human", "system">>}
                     ELSE {<<"human", "ai">>, <<"human", "system", "ai">>})

\* two requests finished, the second one dispatched having entered first; one of
\* them used a tool and the other one's final model call failed
C4_Witness ==
    /\ lockOrder = <<2, 1>>
    /\ call[1].pc = "done" /\ call[2].pc = "done"
    /\ call[1].err /\ ~call[2].err
    /\ Roles(Tail(aMessages)) = <<"human", "system", "ai", "human">>

-----------------------------------------------------------------------------
(* Claims about the end event and the routing flags, checked under SpecRoute *)

\* the messages of session sid persisted under message id id
Persisted(sid, id) == {i \in 1..Len(smMessages[sid]) : smMessages[sid][i].id = id}

\* the end event carries the id of exactly one persisted message, an assistant
\* message whose content is the event's message
EndIsPersisted(c) ==
    /\ call[c].end.message_id # NoMsgId
    /\ Cardinality(Persisted(TheSession, call[c].end.message_id)) = 1
    /\ \A i \in Persisted(TheSession, call[c].end.message_id) :
            /\ smMessages[TheSession][i].role = "assistant"
            /\ smMessages[TheSession][i].content = call[c].end.message

FlagsGateStages(cl) ==
    /\ ~cl.enableSkills =>
            /\ cl.asked \cap {<<"skill", "skill">>, <<"skill", "tool">>} = {}
            /\ StageCalls(cl, "skill") = {}
    /\ ~cl.enableMCP =>
            /\ <<"mcp", "tool">> \notin cl.asked
            /\ StageCalls(cl, "mcp") = {}

\* a request that has returned with both flags off asked the model once, for the
\* answer, and no notice was sent
OneModelCallNoNotice(cl) ==
    /\ cl.asked = {}
    /\ cl.nFinal = 1
    /\ cl.calls = <<>>
    /\ cl.tool = ""
    /\ ~cl.err => cl.ret = cl.text

\* C17 as stated: the flags gate the two stages independently, whatever the catalog;
\* with both off a request makes exactly one model call, sends no tool notice, and
\* appends one user and one assistant message to the history.
C17_FlagsGateOneUserOneAssistant ==
    \A c \in Calls :
        /\ FlagsGateStages(call[c])
        /\ (call[c].pc = "ret" /\ ~call[c].enableSkills /\ ~call[c].enableMCP) =>
                /\ OneModelCallNoNotice(call[c])
                /\ Roles(Block(c)) = <<"human", "ai">>

\* C17, amended: the flags gate the two stages independently, whatever the catalog;
\* with both off a request makes exactly one model call, sends no tool notice, and
\* appends one user message and, when that model call succeeds, one assistant
\* message to the history.
C17_FlagsGateStages ==
    \A c \in Calls :
        /\ FlagsGateStages(call[c])
        /\ (call[c].pc = "ret" /\ ~call[c].enableSkills /\ ~call[c].enableMCP) =>
                /\ OneModelCallNoNotice(call[c])
                /\ Roles(Block(c)) = IF call[c].err THEN <<"human">> ELSE <<"human", "ai">>

\* a request with both flags off returned an answer from an agent whose catalog
\* holds a skill and an MCP tool
C17_Witness ==
    /\ call[1].pc = "ret" /\ ~call[1].err
    /\ ~call[1].enableSkills /\ ~call[1].enableMCP
    /\ aCatalog.toolsEnabled /\ aCatalog.skills # {} /\ aCatalog.mcpTools # <<>>
    /\ Roles(aMessages) = <<"system", "human", "ai">>

-----------------------------------------------------------------------------
(* Claims about the feedback of persisted messages, checked under SpecFeedback *)

\* the messages of session s before and after a step that carry the same id
SameMessage(s, i, j) == smMessages[s][i].id = smMessages'[s][j].id

\* C18: a persisted message never changes its role or content, and once a feedback
\* call has set the feedback of a message id no later feedback call changes it.
C18_FeedbackSetOnce ==
    [][\A s \in Sessions :
         \A i \in 1..Len(smMessages[s]), j \in 1..Len(smMessages'[s]) :
            SameMessage(s, i, j) =>
                /\ smMessages'[s][j].role = smMessages[s][i].role
                /\ smMessages'[s][j].content = smMessages[s][i].content
                /\ smMessages[s][i].feedback # "" =>
                       smMessages'[s][j].feedback = smMessages[s][i].feedback]_vars

-----------------------------------------------------------------------------
(* Claims about the isolation of clients, checked under SpecForeign *)

\* the step is taken by the handler of a request of client c
StepOfClient(c) ==
    \E r \in Requests : /\ c \in {rClient[r], rClient'[r]}
                         /\ <<rPc[r], rId[r]>> # <<rPc'[r], rId'[r]>>

\* C19: no step of a request issued by a client that does not own the sessions
\* changes the registry entry of a session, closes its agent, or changes the agent's
\* conversation history or the persisted messages of the session.
C19_ForeignRequestsChangeNothing ==
    [][(\E c \in Foreign : StepOfClient(c)) =>
           UNCHANGED <<agents, aClose, aMessages, smMessages>>]_vars

-----------------------------------------------------------------------------
(* Claims about the deletion of a session, checked under SpecDel *)

\* the delete handler never waits for the agent: after the select it can always go
\* on to the removal, and after the removal to the session store and its answer
DeleteProceeds ==
    \A r \in Requests :
        /\ rPc[r] = "delwait" => ENABLED HandleDeleteRemove(r)
        /\ rPc[r] = "delsession" => ENABLED HandleDeleteSessionStore(r)

\* the step in which the delete handler r returns
DeleteReturns(r) == rKind[r] = "delete" /\ rPc[r] = "delsession" /\ rPc'[r] = "idle"

\* C20 as stated: the delete handler always proceeds, whether Close has finished or
\* not, and when it returns the registry holds no entry for the session id.
C20_NoEntryAtReturn ==
    /\ []DeleteProceeds
    /\ [][\A r \in Requests : DeleteReturns(r) => agents'[rSid[r]] = NoAgent]_vars

\* C20: the delete handler always proceeds, whether Close has finished or not, and
\* when it returns the registry no longer holds the agent it found; an entry the
\* registry holds for the id then is an agent constructed after the removal.
C20_FoundAgentRemoved ==
    /\ []DeleteProceeds
    /\ [][\A r \in Requests :
            /\ (rPc[r] = "delwait" /\ rPc'[r] = "delsession") =>
                   agents'[rSid[r]] = NoAgent
            /\ (DeleteReturns(r) /\ rAgent[r] # NoAgent) =>
                   /\ agents'[rSid[r]] # rAgent[r]
                   /\ agents'[rSid[r]] # NoAgent => agents'[rSid[r]][2] > rAgent[r][2]]_vars

\* the delete handler has removed the agent after the 10 s, and is about to return,
\* while a chat request is in its model call on that agent and Close still waits
C20_Witness ==
    \E d, c \in Requests :
        /\ rKind[d] = "delete" /\ rPc[d] = "delsession"
        /\ rKind[c] = "chat" /\ rPc[c] = "model"
        /\ rAgent[c] = rAgent[d]
        /\ aMu[rAgent[d]] = c
        /\ aClose[rAgent[d]] = "run"
        /\ agents[rSid[d]] = NoAgent

-----------------------------------------------------------------------------
(* Claims about sessions blocking one another, checked under SpecBlock *)

\* chat request c is in its model call, holding the lock of its agent
InModelCall(c) == rKind[c] = "chat" /\ rPc[c] = "model" /\ aMu[rAgent[c]] = c

\* a deletion holds the registry lock while the Close it started waits for the
\* agent lock that the model call of c holds
DeleteWaitsFor(c) ==
    \E d \in Handlers : /\ rPc[d] = "delwait"
                         /\ agentMu = d
                         /\ aClose[rAgent[d]] = "run"
                         /\ rAgent[d] = rAgent[c]

\* C13: an admitted chat request of one session never waits for the model call of
\* another session: neither for the lock of its own agent, nor, while it resolves its
\* agent, for the registry lock.
C13_OtherSessionNotBlocked ==
    \A r, c \in Handlers :
        (rKind[r] = "chat" /\ InModelCall(c) /\ rSid[c] # rSid[r]) =>
            /\ rPc[r] = "chatlock" => aMu[rAgent[r]] # c
            /\ rPc[r] \in {"getagent", "create"} => ~DeleteWaitsFor(c)

-----------------------------------------------------------------------------
(* Claims about requests during the catalog discovery, checked under SpecDiscover *)

\* C21: whatever the catalog holds when a request is routed, the request does not
\* crash, it reaches the final model call, and it fails only when that call fails.
C21_PartialCatalogIsNoTool ==
    \A c \in Calls :
        /\ call[c].pc # "panic"
        /\ call[c].pc = "ret" =>
              /\ call[c].nFinal = 1
              /\ call[c].err => call[c].final = "failed"

-----------------------------------------------------------------------------
(* Claims about the persisted order of concurrent requests, checked under SpecOrder *)

\* the role under which the agent's history holds a persisted message
HistoryRole(role) == IF role = "user" THEN "human" ELSE "ai"

\* the places of the history that hold the persisted message m
InHistory(m) ==
    {k \in 1..Len(aMessages) : /\ aMessages[k].req = m.id[1]
                                /\ aMessages[k].role = HistoryRole(m.role)}

\* C22: in the persisted messages of the session the assistant message of a request
\* comes right after the user message of that request, and two persisted messages
\* that the agent's history also holds are in the same order there.
C22_PersistedInArrivalOrder ==
    LET ms == smMessages[TheSession]
    IN  /\ \A i, j \in 1..Len(ms) :
              (ms[i].role = "user" /\ ms[j].role = "assistant" /\ ms[j].id[1] = ms[i].id[1])
                  => j = i + 1
        /\ \A i, j \in 1..Len(ms) :
              i < j => \A k \in InHistory(ms[i]), l \in InHistory(ms[j]) : k < l

-----------------------------------------------------------------------------
(* Claims about the tool-result message, checked under SpecRoute *)

\* the tool-result messages request c has in the history
ToolMessages(c) == SelectSeq(Block(c), LAMBDA m : m.role = "system")

\* C23: when the agent call has returned, a request in which a tool executed
\* successfully, whatever the result, has exactly one system message in the history,
\* carrying the tool name and the result, right after its user message (so before
\* the final model call was made); a request in which none did has no such message.
C23_ToolResultInHistory ==
    \A c \in Calls :
        call[c].pc = "ret" =>
            IF call[c].toolUsed
              THEN /\ ToolMessages(c) =
                        << [req |-> c, role |-> "system",
                            content |-> toolMessage(call[c].toolName, call[c].toolResult)] >>
                   /\ Roles(SubSeq(Block(c), 1, 2)) = <<"human", "system">>
              ELSE ToolMessages(c) = <<>>

-----------------------------------------------------------------------------
(* C24: Chat and ChatStream are the same routing machine *)

\* the tool invocations of a request, each with the JSON value of its input
RoutingTrace(c) ==
    [i \in 1..Len(call[c].calls) |->
        [stage |-> call[c].calls[i].stage, ok |-> call[c].calls[i].ok,
         tool |-> call[c].calls[i].tool, args |-> JsonValue(call[c].calls[i].argsStr)]]

\* the user and tool-result messages a request appended to a.messages; of the user
\* message the text, without the serial number of the request
RoutingHistory(c) ==
    LET own == SelectSeq(aMessages, LAMBDA m : m.req = c /\ m.role # "ai")
    IN  [i \in 1..Len(own) |->
            [role |-> own[i].role,
             content |-> IF own[i].role = "human" THEN <<own[i].content[1]>>
                                                  ELSE own[i].content]]

-----------------------------------------------------------------------------
(* C25, C26: Stop and the background loops, checked under SpecLoops *)

\* C25: once Stop has been called no goroutine of the manager has crashed: neither
\* Stop itself nor a SetState issued while it runs or after it has returned fails by
\* sending to the closed event channel, and Stop returns.
C25_StopCompletesNormally == lmStopPc > 0 => ~lmCrashed

\* C26: no iteration of a background loop reaches a crash: the SetState that the
\* idle monitor issues never panics, whatever SetState and Stop calls interleave.
C26_LoopsNeverPanic == ~(lmCrashed /\ lmRet.caller = "idle")

-----------------------------------------------------------------------------
(* C27, C28: the event queue and the idle monitor, checked under SpecLM *)

\* C27: the queue never holds more than its capacity, and a SetState that finds it
\* full on an edge of the table drops the event and returns with the state changed:
\* the queue is as it was, the state is the requested one, nothing crashed.
C27_FullQueueDropsEvent ==
    /\ [](Len(lmEventChan) <= EventChanCap)
    /\ [][(/\ lmRet' # lmRet
           /\ isValidTransition(lmState, lmRet'.to)
           /\ Len(lmEventChan) = EventChanCap) =>
                /\ ~lmCrashed'
                /\ ~lmRet'.err
                /\ lmState' = lmRet'.to
                /\ lmEventChan' = lmEventChan]_vars

\* C28: a step of the idle monitor that changes the state changes it from Running
\* or Ready to Stopping, with the idle time above MaxIdleTime, also when another
\* SetState ran between the monitor's read of the state and its request.
C28_IdleActsOnRunningOrReady ==
    [][(lmIdlePc = "active" /\ lmIdlePc' = "wait" /\ lmState' # lmState) =>
            /\ lmState \in {StateRunning, StateReady}
            /\ lmState' = StateStopping
            /\ idleTooLong]_vars

-----------------------------------------------------------------------------
(* C29: the health check, checked under SpecHealth *)

\* C29: a step that writes the health snapshot is a step of the running health
\* loop, writes healthy = (state # Error) for the state it reads, and changes
\* neither the state, nor the activity time, nor the event queue, nor anything
\* else of the manager.
C29_HealthCheckObserves ==
    [][lmHealth' # lmHealth =>
            /\ lmHealthPc = "wait"
            /\ lmHealth' = "healthy" <=> lmState # StateError
            /\ lmHealth' = "unhealthy" <=> lmState = StateError
            /\ UNCHANGED <<lmState, lmLastActivity, lmNow, lmEventChan, lmChanClosed,
                           lmCtxDone, lmCrashed, lmIdlePc, lmHealthPc, lmEventPc,
                           lmStopPc, lmRet>>]_vars

\* a check has found the manager in the Error state and written an unhealthy
\* snapshot
C29_Witness == lmHealth = "unhealthy" /\ lmState = StateError /\ lmHealthPc = "wait"
-----------------------------------------------------------------------------
(* C30: the registry lock, checked under SpecDel *)

\* C30: no handler holds the registry lock cs.agentMu while it waits on an agent:
\* while a chat request is in its model call, no deletion sits in its select,
\* holding cs.agentMu, with the Close it started waiting for that agent's lock.
C30_RegistryLockOnlyForBookkeeping ==
    \A c \in Handlers : InModelCall(c) => ~DeleteWaitsFor(c)
-----------------------------------------------------------------------------
(* C32: a failed SetState, checked under SpecLM *)

\* C32: a SetState call that returns an error changes neither the state, nor the
\* activity time, nor the event queue.
C32_FailedSetStateNoEffect ==
    [][(lmRet' # lmRet /\ lmRet'.err) =>
            /\ lmState' = lmState
            /\ lmLastActivity' = lmLastActivity
            /\ lmEventChan' = lmEventChan]_vars
-----------------------------------------------------------------------------
(* C31: the loading of a skill entry, checked under SpecDiscover *)

\* the pre-warm loop is inside SkillsToTools for the entry sk
Converting(sk) ==
    /\ aCatalog.init = "converting"
    /\ aCatalog.warm <= Len(SkillNames)
    /\ SkillNames[aCatalog.warm] = sk

\* C31: the result of a conversion is stored for an entry only when no other
\* conversion of that entry is under way, a loaded entry stays loaded, and a request
\* that loadSkillTools gave the tools of an entry holds the entry's tool set.
C31_LoadedAtMostOnce ==
    /\ [](\A c \in Calls : call[c].pc = "skilltool" =>
                /\ ~call[c].torn
                /\ \E sk \in SkillCatalog : call[c].tools = SkillTools(sk))
    /\ [][/\ aLoaded \subseteq aLoaded'
          /\ \A sk \in SkillCatalog :
                (sk \notin aLoaded /\ sk \in aLoaded') => ~Converting(sk)']_vars
-----------------------------------------------------------------------------
(* C33: the system instruction and the growth of the history, checked under SpecOrder *)

\* C33: the agent's history always begins with the system instruction, which occurs
\* nowhere else in it and is followed by a message that is not a system message,
\* and every step leaves the history as it was or appends to it.
C33_HistoryGrowsAfterInstruction ==
    /\ [](/\ Len(aMessages) >= 1
          /\ aMessages[1] = systemMsg
          /\ \A i \in 2..Len(aMessages) : aMessages[i] # systemMsg
          /\ Len(aMessages) >= 2 => aMessages[2].role # "system")
    /\ [][IsPrefix(aMessages, aMessages')]_vars

\* two requests have gone through the agent, one of them with a tool result
C33_Witness ==
    /\ \A c \in {1, 2} : \E i \in 1..Len(aMessages) :
            aMessages[i].req = c /\ aMessages[i].role = "ai"
    /\ \E i \in 1..Len(aMessages) : aMessages[i].req # 0 /\ aMessages[i].role = "system"
-----------------------------------------------------------------------------
(* C34: the lifecycle manager of an agent, checked under SpecBlock *)

\* C34: the agents the registry holds for different session ids have different
\* lifecycle managers, and when an agent is removed from the registry its manager
\* has been stopped.
C34_OneManagerPerAgent ==
    /\ [](\A s, t \in Sessions :
            (s # t /\ agents[s] # NoAgent /\ agents[t] # NoAgent) =>
                lifecycleManagerOf(agents[s]) # lifecycleManagerOf(agents[t]))
    /\ [][\A s \in Sessions :
            (agents[s] # NoAgent /\ agents'[s] = NoAgent) => lmStopPc' > 0]_vars
-----------------------------------------------------------------------------
(* C35: the history limit of the persisted session, checked under SpecHistory *)

\* the last n elements of seq
LastN(seq, n) == SubSeq(seq, Len(seq) - n + 1, Len(seq))

\* this step is an AddMessage to session s that made the message with id mid: the
\* message is the last of the session afterwards, and the session holds what it held
\* with the message appended, cut down to its most recent smMaxHistory messages when
\* there is a limit and they are more
Added(s, mid) ==
    LET new == smMessages'[s]
    IN  /\ Len(new) > 0
        /\ new[Len(new)].id = mid
        /\ LET appended == Append(smMessages[s], new[Len(new)])
           IN  new = IF smMaxHistory > 0 /\ Len(appended) > smMaxHistory
                       THEN LastN(appended, smMaxHistory)
                       ELSE appended

\* C35: with a positive limit the persisted session never holds more messages than
\* the limit, and every AddMessage (of the user message when the request is
\* received, of the assistant message when it was answered) leaves the most recent
\* messages in their order; without a limit it only appends.
C35_KeepsMostRecent ==
    /\ [](smMaxHistory > 0 => \A s \in Sessions : Len(smMessages[s]) <= smMaxHistory)
    /\ [][\A c \in Calls :
            /\ (call[c].pc = "idle" /\ call'[c].pc = "lock") => Added(TheSession, <<c, "user">>)
            /\ (call[c].pc = "ret" /\ ~call[c].err /\ call'[c].pc = "done") =>
                    Added(TheSession, <<c, "assistant">>)]_vars

\* the limit has cut the session: the user message of a request that was answered
\* is no longer in it
C35_Witness ==
    /\ smMaxHistory > 0
    /\ Len(smMessages[TheSession]) = smMaxHistory
    /\ \E c \in Calls :
        /\ call[c].pc = "done" /\ ~call[c].err
        /\ \A i \in 1..Len(smMessages[TheSession]) : smMessages[TheSession][i].id # <<c, "user">>
-----------------------------------------------------------------------------
(* C36: a failed final model call, checked under SpecRoute *)

\* the agent's history holds a message of request c with the role
HasMessage(c, role) ==
    \E i \in 1..Len(aMessages) : aMessages[i].req = c /\ aMessages[i].role = role

\* the persisted session holds the message that request c added for the role
Persists(c, role) ==
    \E i \in 1..Len(smMessages[TheSession]) : smMessages[TheSession][i].id = <<c, role>>

\* C36: a request whose final model call failed returns an error; the agent's
\* history then holds its user message, the tool-result message if a tool ran, and
\* no assistant message, and the persisted session holds its user message and no
\* assistant message, also after the handler has returned.
C36_FailedCallKeepsHistory ==
    \A c \in Calls :
        /\ (call[c].pc = "ret" /\ call[c].final = "failed") =>
                /\ call[c].err
                /\ HasMessage(c, "human")
                /\ call[c].toolUsed => HasMessage(c, "system")
                /\ ~HasMessage(c, "ai")
        /\ (call[c].pc \in {"ret", "done"} /\ call[c].err) =>
                /\ Persists(c, "user")
                /\ ~Persists(c, "assistant")
-----------------------------------------------------------------------------
(* C37: a deleted session, checked under SpecStale *)

\* C37: a session that is neither in the manager's map nor in the store (every
\* session id of the model was created once, so it is one that DeleteSession
\* removed) is in neither after any step: no file for the id appears and GetSession
\* for it keeps failing.
C37_DeletedStaysDeleted ==
    [][\A s \in Sessions :
            (s \notin smSessions /\ s \notin smFiles) =>
                (s \notin smSessions' /\ s \notin smFiles' /\ ~GetSessionOk(s)')]_vars
-----------------------------------------------------------------------------
(* C38: the answer of DeleteSession, checked under SpecDel *)

\* C38: DeleteSession reports an error exactly when it deleted nothing: the step of
\* a delete handler through sm.DeleteSession, for a session that is in the manager's
\* map (with or without a file in the store), removes it and is answered 204, and a
\* step that is answered with the error (404) leaves the map as it was.
C38_ErrorIffNothingDeleted ==
    [][\A r \in Requests :
            (rPc[r] = "delsession" /\ rPc'[r] = "idle") =>
                /\ (rClient[r] = Owner /\ rSid[r] \in smSessions) =>
                        (rSid[r] \notin smSessions' /\ resp'.code = 204)
                /\ resp'.code = 404 => smSessions' = smSessions]_vars
-----------------------------------------------------------------------------
(* C39: refresh tokens, checked under SpecAuth *)

\* caller p has the successful response of a RefreshToken call
Refreshed(p) == auCall[p].pc = "done" /\ auCall[p].tok > 0 /\ auCall[p].ret > 0

\* token t has been generated by a RefreshToken call that has not stored it yet
Pending(t) == \E p \in AuthCallers : auCall[p].pc = "generated" /\ auCall[p].new = t

\* C39: a refresh token is single-use.  No two RefreshToken calls succeed with the
\* same token; a RefreshToken call that succeeds replaces its token, accepted until
\* then, by exactly one new token; and a token that was issued and is no longer
\* accepted (used by RefreshToken, or given to Logout) is never accepted again.
C39_RefreshTokenSingleUse ==
    /\ [](\A p, q \in AuthCallers :
            (p # q /\ Refreshed(p) /\ Refreshed(q)) => auCall[p].tok # auCall[q].tok)
    /\ [][/\ \A p \in AuthCallers :
                (auCall[p].pc = "generated" /\ auCall'[p].pc = "done") =>
                    /\ auCall[p].tok \in refreshTokens
                    /\ auCall'[p].ret \notin refreshTokens
                    /\ refreshTokens' = (refreshTokens \ {auCall[p].tok}) \cup {auCall'[p].ret}
         /\ \A t \in 1..nTokens :
                (t \notin refreshTokens /\ ~Pending(t)) => t \notin refreshTokens']_vars
=============================================================================
